---- MODULE Spec2Model ----
(***************************************************************************)
(* Model of the log-db ingest pipeline: the three parse workers            *)
(* (src/ingest/workers), the coordinator (src/ingest/parse.py), the merge  *)
(* step (src/ingest/merge.py), the same pipeline as the one module         *)
(* src/ingest/csv_parser.py has it, the counting parsers                   *)
(* (src/parse_to_csv.py, src/ingest/parser.py, src/parse_helper.py) and    *)
(* the loaders.                                                            *)
(*                                                                         *)
(* Text is modelled as follows.  A token that the code converts (a size,   *)
(* a block number, a compact date or time) is a sequence of one-character  *)
(* strings, e.g. <<"1","a">> is the text 1a.  A log line is a record that  *)
(* holds the line's skeleton (fmt) and the text of every place where the   *)
(* pattern has a group; the regular expression is the predicate on that    *)
(* record that the pattern puts on the groups.  A destination token of a   *)
(* replicate line is a sequence of lexemes, e.g.                           *)
(* <<"10.0.0.6", ":", "50010">> is the text 10.0.0.6:50010.                *)
(***************************************************************************)
EXTENDS Integers, Sequences, FiniteSets, TLC

VARIABLES
    mpc,          \* parse.main: where the coordinator is
    failure,      \* the exception that ended parse.main, or "none"
    wpc,          \* per worker process: its position
    nread,        \* per worker: number of input lines read
    lastLine,     \* per worker: the line read by its latest step
    lastBefore,   \* per worker: rows in its record stream before that step
    names,        \* per worker: action_type_names, the names observed
    tmpEntry,     \* parsed/tmp/log_entry_<w>.csv: NoFile or its rows
    tmpDetail,    \* parsed/tmp/access_detail_access.csv
    tmpActions,   \* parsed/tmp/action_types_<w>.csv
    out,          \* the canonical files of parsed/
    wrote,        \* canonical files opened for writing by this run
    parser,       \* counting parsers: which function runs
    cpc,          \* counting parsers: position
    total,        \* counting parsers: total
    matched,      \* counting parsers: matched
    rows,         \* counting parsers: the rows built so far
    pending,      \* counting parsers: rows of the current line not yet yielded
    db,           \* the warehouse: the committed rows of its four tables
    lpc,          \* load.main (COPY loader): where it is
    lfailure,     \* the exception that ended load.main, or "none"
    input,        \* repeated runs: per worker, its input file
    run,          \* which run of the pipeline this is
    snap,         \* repeated runs: what the warehouse held after run 1
    pipeline,     \* the parse program that runs: "parse" or "csv_parser"
    copier,       \* the COPY loader started: "load", "copy_loader" or "none"
    loader,       \* batched loaders: "ingest" (ingest/loader.py) or "ui"
    bpc,          \* batched loaders: where load / insert_logs is
    bfailure,     \* the exception that ended load / insert_logs, or "none"
    parsed,       \* the argument parsed: <<key, rows>> in dict order
    tx,           \* the tables as the open connection sees them
    seq,          \* the id sequences of action_type and log_entry
    log_type_ids, \* the mapping get_log_type_ids returned
    kpos,         \* the item of parsed the loop is at
    rpos,         \* the row of that item the loop is at
    log_type_id,  \* the id of the log type being inserted
    entry_batch,  \* the fact rows waiting for a flush
    detail_staging, \* the staged details: <<position, detail>>
    inserted_count, \* _insert_for_log_type: rows flushed so far
    calls,        \* how many times the loader was called
    flushed,      \* the records of the batches flushed by this call
    step,         \* the latest step of the batched loader
    spc,          \* load_with_copy.main: where it is
    sfailure,     \* the exception that ended load_with_copy.main, or "none"
    log_entry_staging \* the rows of the table log_entry_staging

vars == <<mpc, failure, wpc, nread, lastLine, lastBefore, names, tmpEntry,
          tmpDetail, tmpActions, out, wrote, parser, cpc, total, matched, rows,
          pending, db, lpc, lfailure, input, run, snap, pipeline, copier,
          loader, bpc, bfailure, parsed, tx, seq, log_type_ids, kpos, rpos,
          log_type_id, entry_batch, detail_staging, inserted_count, calls,
          flushed, step, spc, sfailure, log_entry_staging>>

pipeVars == <<mpc, failure, wpc, nread, lastLine, lastBefore, names, tmpEntry,
              tmpDetail, tmpActions, out, wrote>>
countVars == <<parser, cpc, total, matched, rows, pending>>
copyVars == <<db, lpc, lfailure>>
runVars == <<input, run, snap, pipeline, copier>>
batchVars == <<loader, bpc, bfailure, parsed, tx, seq, log_type_ids, kpos, rpos,
               log_type_id, entry_batch, detail_staging, inserted_count, calls,
               flushed, step>>
stagingVars == <<spc, sfailure, log_entry_staging>>
loadVars == <<copyVars, runVars, batchVars, stagingVars>>

-----------------------------------------------------------------------------
(* Bounds *)

\* lines one worker (or one counting parser) reads in a run
MaxLines == 2
\* destination tokens on one replicate line
MaxDests == 2
\* rows held in memory before a flush (500000 in ingest/loader.py, 50000 in
\* ui/ingest/loader.py)
BATCH_SIZE == 2
\* rows of the access item of parsed
MaxRows == 4
\* lines one worker reads in the runs checked for termination
LiveLines == 1

-----------------------------------------------------------------------------
(* Characters, integers *)

Digits == {"0", "1", "2", "3", "4", "5", "6", "7", "8", "9"}

DigitVal(c) ==
    CASE c = "0" -> 0 [] c = "1" -> 1 [] c = "2" -> 2 [] c = "3" -> 3
      [] c = "4" -> 4 [] c = "5" -> 5 [] c = "6" -> 6 [] c = "7" -> 7
      [] c = "8" -> 8 [] c = "9" -> 9

AllDigits(s) == Len(s) >= 1 /\ \A i \in 1..Len(s) : s[i] \in Digits

RECURSIVE NatVal(_)
NatVal(s) ==
    IF Len(s) = 0 THEN 0
    ELSE 10 * NatVal(SubSeq(s, 1, Len(s) - 1)) + DigitVal(s[Len(s)])

\* int(text) of Python for text over digits, "-", "+" and letters: an optional
\* sign and then one or more digits; anything else raises ValueError.
IntOk(s) ==
    /\ Len(s) >= 1
    /\ IF s[1] \in {"-", "+"} THEN AllDigits(Tail(s)) ELSE AllDigits(s)

IntVal(s) ==
    IF s[1] = "-" THEN 0 - NatVal(Tail(s))
    ELSE IF s[1] = "+" THEN NatVal(Tail(s))
    ELSE NatVal(s)

\* A numeric CSV cell: Empty is the empty cell (the code's ""), Cell(n) holds
\* the integer n.
Empty == <<>>
Cell(n) == <<n>>

-----------------------------------------------------------------------------
(* Timestamps: src/ingest/timestamps.py *)

MonthNames == <<"Jan", "Feb", "Mar", "Apr", "May", "Jun",
                "Jul", "Aug", "Sep", "Oct", "Nov", "Dec">>

MonthNumber(mon) == CHOOSE i \in 1..Len(MonthNames) : MonthNames[i] = mon

IsLeap(y) == (y % 4 = 0 /\ y % 100 # 0) \/ y % 400 = 0

DaysIn(y, m) ==
    IF m = 2 THEN (IF IsLeap(y) THEN 29 ELSE 28)
    ELSE IF m \in {4, 6, 9, 11} THEN 30 ELSE 31

ValidDateTime(y, m, d, h, mi, s) ==
    /\ m \in 1..12
    /\ d >= 1 /\ d <= DaysIn(y, m)
    /\ h \in 0..23 /\ mi \in 0..59 /\ s \in 0..59

\* ts_apache(s): strptime(s, "%d/%b/%Y:%H:%M:%S %z").  The text is a record:
\* shape "clf" is text laid out as dd/Mon/yyyy:HH:MM:SS +ZZZZ, with the
\* numbers of its fields; any other shape is text strptime cannot read.
TsApacheOk(t) ==
    /\ t.shape = "clf"
    /\ \E i \in 1..Len(MonthNames) : MonthNames[i] = t.mon
    /\ ValidDateTime(t.y, MonthNumber(t.mon), t.d, t.h, t.mi, t.s)

\* the datetime, as isoformat() prints it
TsApache(t) == <<t.y, MonthNumber(t.mon), t.d, t.h, t.mi, t.s, t.tz>>

\* two characters of a digit string, as a number
D2(s, i) == 10 * DigitVal(s[i]) + DigitVal(s[i + 1])

\* %y of strptime: 00..68 are 2000..2068, 69..99 are 1969..1999
Year2(yy) == IF yy <= 68 THEN 2000 + yy ELSE 1900 + yy

\* ts_hdfs_compact(date, time): strptime(date + time, "%y%m%d%H%M%S") on
\* the twelve digits the patterns capture
TsHdfsCompactOk(date, time) ==
    ValidDateTime(Year2(D2(date, 1)), D2(date, 3), D2(date, 5),
                  D2(time, 1), D2(time, 3), D2(time, 5))

TsHdfsCompact(date, time) ==
    <<Year2(D2(date, 1)), D2(date, 3), D2(date, 5),
      D2(time, 1), D2(time, 3), D2(time, 5)>>

-----------------------------------------------------------------------------
(* Identifiers: src/ingest/ids.py, src/ingest/util.py, src/ingest/config.py *)

\* LogType, in enumeration order
LogTypes == <<"ACCESS", "HDFS_DATAXCEIVER", "HDFS_NAMESYSTEM">>

\* load_log_type_ids()[lt]: enumerate(LogType.list(), start=1)
LoadLogTypeIds(lt) == CHOOSE i \in 1..Len(LogTypes) : LogTypes[i] = lt

ACTION_TYPE_NAMESPACE == "12345678-1234-5678-1234-567812345678"

\* uuid.uuid5(namespace, name): a hash of the two, modelled as the pair
Uuid5(namespace, name) == <<"uuid5", namespace, name>>

\* a per-process sequence counter in place of the content hash
CounterActionTypeId(action) ==
    <<"seq", nread["access"] + 2 * nread["datax"] + 4 * nread["namesys"]>>

\* a namespace drawn anew for every run in place of the fixed one
RunSeededActionTypeId(action) ==
    Uuid5(IF run = 1 THEN ACTION_TYPE_NAMESPACE
          ELSE "87654321-4321-8765-4321-876543218765", action)

\* deterministic_action_type_id(action)
DeterministicActionTypeId(action) == Uuid5(ACTION_TYPE_NAMESPACE, action)

\* uuid.uuid4() for the n-th row a worker writes in a run: a fresh value
Uuid4(w, n) == <<"uuid4", w, n, run>>

\* the three worker processes of parse.main, named by their staging suffix
Workers == {"access", "datax", "namesys"}

WorkerLogType(w) ==
    CASE w = "access" -> "ACCESS"
      [] w = "datax" -> "HDFS_DATAXCEIVER"
      [] w = "namesys" -> "HDFS_NAMESYSTEM"

\* write_entry: the row written to the log_entry staging file
WriteEntry(w, n, log_type, action, timestamp, source_ip, dest_ip, block_id, size_bytes) ==
    [id             |-> Uuid4(w, n),
     log_type_id    |-> LoadLogTypeIds(log_type),
     action_type_id |-> action,
     log_timestamp  |-> timestamp,
     source_ip      |-> source_ip,
     dest_ip        |-> dest_ip,
     block_id       |-> IF block_id # Empty THEN block_id ELSE Empty,
     size_bytes     |-> IF size_bytes # Empty THEN size_bytes ELSE Empty]

\* every action name of the model, in the order sorted() gives strings
NameOrder == <<"GET", "received", "receiving", "replicate", "served", "update">>

RECURSIVE SortedFrom(_, _)
SortedFrom(S, i) ==
    IF i > Len(NameOrder) THEN <<>>
    ELSE (IF NameOrder[i] \in S THEN <<NameOrder[i]>> ELSE <<>>)
         \o SortedFrom(S, i + 1)

\* sorted(action_type_names)
Sorted(S) == SortedFrom(S, 1)

\* write_action_types: the rows of the action-names file
WriteActionTypes(S) ==
    [i \in 1..Len(Sorted(S)) |->
        [id |-> DeterministicActionTypeId(Sorted(S)[i]), name |-> Sorted(S)[i]]]

-----------------------------------------------------------------------------
(* Input lines *)

TsGood  == [shape |-> "clf", d |-> 10, mon |-> "Oct", y |-> 2020,
            h |-> 13, mi |-> 55, s |-> 36, tz |-> "+0000"]
\* [32/Oct/2020:13:55:36 +0000]
TsDay32 == [TsGood EXCEPT !.d = 32]
\* [2020-10-10T13:55:36+00:00]
TsIso   == [TsGood EXCEPT !.shape = "iso"]

DateGood    == <<"0", "8", "1", "1", "0", "9">>
DateMonth13 == <<"0", "8", "1", "3", "0", "9">>
TimeGood    == <<"2", "0", "3", "5", "1", "8">>

\* 10.0.0.1 - - [10/Oct/2020:13:55:36 +0000] "GET /index.html HTTP/1.0" 200 1043 "-" "curl/7.64"
AccessBase ==
    [fmt |-> "access", ip |-> "10.0.0.1", remote_name |-> "-", auth_user |-> "-",
     timestamp |-> TsGood, method |-> "GET", resource |-> "/index.html",
     status |-> <<"2", "0", "0">>, size |-> <<"1", "0", "4", "3">>,
     referrer |-> "-", agent |-> "curl/7.64"]

\* a line of no format
OtherLine == [fmt |-> "other"]

SizeTokens == {<<"-">>, <<"1", "0", "4", "3">>, <<"0">>, <<"0", "7">>, <<"1", "a">>}

AccessLines ==
    {[AccessBase EXCEPT !.method = m, !.size = z] :
        m \in {"GET", "update"}, z \in SizeTokens}
    \cup {[AccessBase EXCEPT !.timestamp = t] : t \in {TsDay32, TsIso}}
    \cup {[AccessBase EXCEPT !.status = <<"2", "0">>],
          [AccessBase EXCEPT !.referrer = "http://a/"],
          OtherLine}

\* 081109 203518 143 INFO dfs.DataNode$DataXceiver: Receiving block blk_100
\*   src: /10.0.0.2:50010 dest: /10.0.0.3:50010
DataxBase ==
    [fmt |-> "datax", date |-> DateGood, time |-> TimeGood, op |-> "Receiving",
     blk |-> <<"1", "0", "0">>, src |-> "10.0.0.2", dst |-> "10.0.0.3",
     size |-> <<>>]

BlockTokens == {<<"1", "0", "0">>, <<"-", "7">>, <<"1", "-", "2">>}

DataxLines ==
    {[DataxBase EXCEPT !.op = o, !.blk = b] :
        o \in {"Receiving", "Received", "Served"}, b \in BlockTokens}
    \cup {[DataxBase EXCEPT !.op = "Received", !.blk = b, !.size = <<"9", "1">>] :
            b \in BlockTokens}
    \cup {[DataxBase EXCEPT !.date = DateMonth13],
          [DataxBase EXCEPT !.op = "Deleting"],
          OtherLine}

\* 081109 203518 143 INFO dfs.FSNamesystem: BLOCK* NameSystem.addStoredBlock:
\*   blockMap updated: 10.0.0.4:50010 is added to blk_100 size 91
\* words is the text before the address: "blockMap updated:" as HDFS writes
\* it, or "blockMapupdated:"
UpdateBase ==
    [fmt |-> "update", date |-> DateGood, time |-> TimeGood,
     words |-> "blockMap updated:", ip |-> "10.0.0.4",
     block |-> <<"1", "0", "0">>, size |-> <<"9", "1">>]

UpdateSquashed == [UpdateBase EXCEPT !.words = "blockMapupdated:"]

\* destination tokens, as lexemes
Tok6      == <<"10.0.0.6", ":", "50010">>
Tok7      == <<"10.0.0.7", ":", "50010">>
TokNoPort == <<"10.0.0.8">>
TokHost   == <<"host", ":", "50010">>
TokGlued  == <<"10.0.0.6", ":", "50010", "10.0.0.7", ":", "50010">>

DestTokens == {Tok6, Tok7, TokNoPort}

DestLists == UNION {[1..k -> DestTokens] : k \in 1..MaxDests}

\* 081109 203518 143 INFO dfs.FSNamesystem: BLOCK* ask 10.0.0.5:50010 to
\*   replicate blk_100 to datanode(s) 10.0.0.6:50010 10.0.0.7:50010
ReplicateBase ==
    [fmt |-> "replicate", date |-> DateGood, time |-> TimeGood,
     src_ip |-> "10.0.0.5", block |-> <<"1", "0", "0">>,
     dest_list |-> <<Tok6, Tok7>>]

NamesysLines ==
    {[u EXCEPT !.block = b, !.size = z] :
        u \in {UpdateBase, UpdateSquashed},
        b \in {<<"1", "0", "0">>, <<"-", "7">>}, z \in {<<>>, <<"9", "1">>}}
    \cup {[ReplicateBase EXCEPT !.dest_list = l] : l \in DestLists}
    \cup {[ReplicateBase EXCEPT !.dest_list = <<Tok6, TokHost>>],
          [ReplicateBase EXCEPT !.dest_list = <<TokGlued>>],
          [ReplicateBase EXCEPT !.dest_list = <<>>],
          [ReplicateBase EXCEPT !.block = <<"-", "7">>, !.dest_list = <<Tok7>>],
          [ReplicateBase EXCEPT !.date = DateMonth13],
          [UpdateBase EXCEPT !.date = DateMonth13],
          [UpdateSquashed EXCEPT !.date = DateMonth13],
          OtherLine}

\* the lines the workers read when all three run under parse.main
PipeLines(w) ==
    CASE w = "access" ->
            {AccessBase, [AccessBase EXCEPT !.method = "replicate"],
             [AccessBase EXCEPT !.size = <<"1", "a">>]}
      [] w = "datax" ->
            {DataxBase, [DataxBase EXCEPT !.blk = <<"1", "-", "2">>]}
      [] w = "namesys" ->
            {UpdateBase, ReplicateBase,
             [ReplicateBase EXCEPT !.date = DateMonth13]}

\* the lines a worker reads when it runs alone
SoloLines(w) ==
    CASE w = "access" -> AccessLines
      [] w = "datax" -> DataxLines
      [] w = "namesys" -> NamesysLines

-----------------------------------------------------------------------------
(* The patterns *)

\* ACCESS_REGEX.match(line): status is \d{3}, size is \S+
AccessRegexMatch(line) ==
    /\ line.fmt = "access"
    /\ Len(line.status) = 3 /\ AllDigits(line.status)
    /\ Len(line.size) >= 1

\* DATAX_REGEX.match(line): date and time are \d{6}, the keyword is one of
\* the three, the block is blk_[0-9\-]+, the size of Received is \d+ if there
DataxRegexMatch(line) ==
    /\ line.fmt = "datax"
    /\ Len(line.date) = 6 /\ AllDigits(line.date)
    /\ Len(line.time) = 6 /\ AllDigits(line.time)
    /\ line.op \in {"Receiving", "Received", "Served"}
    /\ Len(line.blk) >= 1
    /\ \A i \in 1..Len(line.blk) : line.blk[i] \in Digits \cup {"-"}
    /\ line.size # <<>> => (line.op = "Received" /\ AllDigits(line.size))

\* -?\d+
SignedDigits(s) ==
    /\ Len(s) >= 1
    /\ IF s[1] = "-" THEN AllDigits(Tail(s)) ELSE AllDigits(s)

\* NAMESYS_UPDATE_REGEX.match(line) of src/parse_to_csv.py and
\* src/ingest/parser.py: the pattern reads blockMap\s+updated:
NamesysUpdateRegexMatchSpaced(line) ==
    /\ line.fmt = "update"
    /\ line.words = "blockMap updated:"
    /\ Len(line.date) = 6 /\ AllDigits(line.date)
    /\ Len(line.time) = 6 /\ AllDigits(line.time)
    /\ SignedDigits(line.block)
    /\ line.size # <<>> => AllDigits(line.size)

\* NAMESYS_UPDATE_REGEX.match(line) of the placement worker: the pattern is
\* compiled with re.VERBOSE and reads "blockMap updated:" with a plain blank,
\* which VERBOSE drops, so that it matches the text blockMapupdated: only
NamesysUpdateRegexMatch(line) ==
    /\ line.fmt = "update"
    /\ line.words = "blockMapupdated:"
    /\ Len(line.date) = 6 /\ AllDigits(line.date)
    /\ Len(line.time) = 6 /\ AllDigits(line.time)
    /\ SignedDigits(line.block)
    /\ line.size # <<>> => AllDigits(line.size)

\* lexemes that match [0-9.]+ and lexemes that match \d+
IpText   == {"10.0.0.5", "10.0.0.6", "10.0.0.7", "10.0.0.8", "50010"}
PortText == {"50010"}

\* one destination token is one or more [0-9.]+:\d+ with nothing between
TokenMatch(tok) ==
    /\ Len(tok) >= 3 /\ Len(tok) % 3 = 0
    /\ \A i \in 1..Len(tok) :
          CASE i % 3 = 1 -> tok[i] \in IpText
            [] i % 3 = 2 -> tok[i] = ":"
            [] i % 3 = 0 -> tok[i] \in PortText

\* NAMESYS_ASK_REPLICATE_REGEX.match(line): dest_list is (?:[0-9.]+:\d+\s*)+
NamesysAskReplicateRegexMatch(line) ==
    /\ line.fmt = "replicate"
    /\ Len(line.date) = 6 /\ AllDigits(line.date)
    /\ Len(line.time) = 6 /\ AllDigits(line.time)
    /\ SignedDigits(line.block)
    /\ Len(line.dest_list) >= 1
    /\ \A i \in 1..Len(line.dest_list) : TokenMatch(line.dest_list[i])

-----------------------------------------------------------------------------
(* Files *)

NoFile == [exists |-> FALSE, rows |-> <<>>]
File(rs) == [exists |-> TRUE, rows |-> rs]

LOG_TYPE_FILENAME == "log_type.csv"
ACTION_TYPE_FILENAME == "action_type.csv"
LOG_ENTRY_FILENAME == "log_entry.csv"
ACCESS_DETAIL_FILENAME == "log_access_detail.csv"

CanonicalFiles == {LOG_TYPE_FILENAME, ACTION_TYPE_FILENAME, LOG_ENTRY_FILENAME,
                   ACCESS_DETAIL_FILENAME}

-----------------------------------------------------------------------------
(* The parse workers: src/ingest/workers and src/ingest/csv_parser.py *)

\* The repository holds the parse pipeline twice: parse.main with the
\* workers of src/ingest/workers, and csv_parser.main with the workers of
\* that module.  The variable pipeline says which of the two runs.
Pipelines == {"parse", "csv_parser"}

\* What one iteration of a worker's loop does with a line: crash says that an
\* exception left the loop (and ended the process), rows and detail are the
\* rows written before that, names the names added to action_type_names.
Skip == [crash |-> FALSE, rows |-> <<>>, detail |-> <<>>, names |-> {}]
Raise(ns) == [crash |-> TRUE, rows |-> <<>>, detail |-> <<>>, names |-> ns]

\* size "-" read as the number 0
AccessSizeZero(size) ==
    IF size \notin {<<>>, <<"-">>} THEN Cell(IntVal(size)) ELSE Cell(0)

\* access_worker.py: int(fields["size"]) if fields["size"] not in {"", "-"} else ""
AccessSizeBytes(size) ==
    IF size \notin {<<>>, <<"-">>} THEN Cell(IntVal(size)) ELSE Empty

\* a detail row that carries the id of no fact row of the run
AccessDetailRowDetached(entry_id, line) ==
    [log_entry_id |-> Uuid4("access", 0),
     remote_name  |-> line.remote_name,
     auth_user    |-> line.auth_user,
     http_method  |-> "",
     resource     |-> line.resource,
     http_status  |-> Cell(IntVal(line.status)),
     referrer     |-> IF line.referrer = "-" THEN "" ELSE line.referrer,
     user_agent   |-> line.agent]

\* the access-detail row; the dict has no http_method key, so DictWriter
\* writes its restval, the empty text, in that column
AccessDetailRow(entry_id, line) ==
    [log_entry_id |-> entry_id,
     remote_name  |-> line.remote_name,
     auth_user    |-> line.auth_user,
     http_method  |-> "",
     resource     |-> line.resource,
     http_status  |-> Cell(IntVal(line.status)),
     referrer     |-> IF line.referrer = "-" THEN "" ELSE line.referrer,
     user_agent   |-> line.agent]

\* parse_access_worker, the body of the loop; n rows are in the file already
ParseAccessLine(line, n) ==
    IF ~AccessRegexMatch(line) THEN Skip
    ELSE IF ~TsApacheOk(line.timestamp) THEN Raise({})
    ELSE IF line.size \notin {<<>>, <<"-">>} /\ ~IntOk(line.size)
         THEN Raise({line.method})
    ELSE LET row == WriteEntry("access", n + 1, "ACCESS",
                               DeterministicActionTypeId(line.method),
                               TsApache(line.timestamp), line.ip, "",
                               Empty, AccessSizeBytes(line.size))
         IN  [crash |-> FALSE, rows |-> <<row>>,
              detail |-> <<AccessDetailRow(row.id, line)>>,
              names |-> {line.method}]

\* csv_parser.py, the detail row of parse_access_worker: the dict has the
\* key http_method, the request method of the line
CsvParserAccessDetailRow(entry_id, line) ==
    [log_entry_id |-> entry_id,
     remote_name  |-> line.remote_name,
     auth_user    |-> line.auth_user,
     http_method  |-> line.method,
     resource     |-> line.resource,
     http_status  |-> Cell(IntVal(line.status)),
     referrer     |-> IF line.referrer = "-" THEN "" ELSE line.referrer,
     user_agent   |-> line.agent]

\* csv_parser.py, parse_access_worker, the body of the loop
CsvParserAccessLine(line, n) ==
    IF ~AccessRegexMatch(line) THEN Skip
    ELSE IF ~TsApacheOk(line.timestamp) THEN Raise({})
    ELSE IF line.size # <<"-">> /\ ~IntOk(line.size)
         THEN Raise({line.method})
    ELSE LET size == IF line.size # <<"-">> THEN Cell(IntVal(line.size))
                     ELSE Empty
             row == WriteEntry("access", n + 1, "ACCESS",
                               DeterministicActionTypeId(line.method),
                               TsApache(line.timestamp), line.ip, "",
                               Empty, size)
         IN  [crash |-> FALSE, rows |-> <<row>>,
              detail |-> <<CsvParserAccessDetailRow(row.id, line)>>,
              names |-> {line.method}]

\* the action name of a DataXceiver line
DataxAction(op) ==
    CASE op = "Receiving" -> "receiving"
      [] op = "Received" -> "received"
      [] op = "Served" -> "served"

\* parse_dataxceiver_worker, the body of the loop, with add_receiving,
\* add_received and add_served; the worker of csv_parser.py has the three
\* branches in the loop itself, with the same pattern, the same order of the
\* conversions and the same rows
ParseDataxLine(line, n) ==
    IF ~DataxRegexMatch(line) THEN Skip
    ELSE IF ~TsHdfsCompactOk(line.date, line.time) THEN Raise({})
    ELSE IF ~IntOk(line.blk) THEN Raise({DataxAction(line.op)})
    ELSE LET size == IF line.op = "Received" /\ line.size # <<>>
                     THEN Cell(IntVal(line.size)) ELSE Empty
             row == WriteEntry("datax", n + 1, "HDFS_DATAXCEIVER",
                               DeterministicActionTypeId(DataxAction(line.op)),
                               TsHdfsCompact(line.date, line.time),
                               line.src, line.dst,
                               Cell(IntVal(line.blk)), size)
         IN  [crash |-> FALSE, rows |-> <<row>>, detail |-> <<>>,
              names |-> {DataxAction(line.op)}]

\* ":" in token
HasColon(tok) == \E i \in 1..Len(tok) : tok[i] = ":"

\* token.split(":", 1)[0]: the text before the first colon (every token of
\* the model has at most one lexeme there)
SplitHead(tok) == IF tok[1] = ":" THEN "" ELSE tok[1]

\* add_update
AddUpdate(line, n) ==
    IF ~TsHdfsCompactOk(line.date, line.time) THEN Raise({"update"})
    ELSE LET size == IF line.size # <<>> THEN Cell(IntVal(line.size)) ELSE Empty
             row == WriteEntry("namesys", n + 1, "HDFS_NAMESYSTEM",
                               DeterministicActionTypeId("update"),
                               TsHdfsCompact(line.date, line.time),
                               line.ip, "", Cell(IntVal(line.block)), size)
         IN  [crash |-> FALSE, rows |-> <<row>>, detail |-> <<>>,
              names |-> {"update"}]

\* only the first destination gets a row
ReplicateFirstOnly(line, n) ==
    <<WriteEntry("namesys", n + 1, "HDFS_NAMESYSTEM",
                 DeterministicActionTypeId("replicate"),
                 TsHdfsCompact(line.date, line.time), line.src_ip,
                 SplitHead(line.dest_list[1]), Cell(IntVal(line.block)), Empty)>>

\* add_replicate, the loop over fields["dest_list"].split()
ReplicateRows(line, n) ==
    LET toks == SelectSeq(line.dest_list, HasColon)
    IN  [i \in 1..Len(toks) |->
            WriteEntry("namesys", n + i, "HDFS_NAMESYSTEM",
                       DeterministicActionTypeId("replicate"),
                       TsHdfsCompact(line.date, line.time), line.src_ip,
                       SplitHead(toks[i]), Cell(IntVal(line.block)), Empty)]

\* add_replicate
AddReplicate(line, n) ==
    IF ~TsHdfsCompactOk(line.date, line.time) THEN Raise({"replicate"})
    ELSE [crash |-> FALSE, rows |-> ReplicateRows(line, n), detail |-> <<>>,
          names |-> {"replicate"}]

\* parse_namesystem_worker, the body of the loop
ParseNamesysLine(line, n) ==
    IF NamesysUpdateRegexMatch(line) THEN AddUpdate(line, n)
    ELSE IF NamesysAskReplicateRegexMatch(line) THEN AddReplicate(line, n)
    ELSE Skip

\* csv_parser.py, parse_namesystem_worker, the body of the loop: the update
\* pattern reads blockMap\s+updated:, the timestamp is converted before the
\* name is added to action_type_names, and the ip of an update line is
\* passed as dest_ip
CsvParserNamesysLine(line, n) ==
    IF NamesysUpdateRegexMatchSpaced(line)
    THEN IF ~TsHdfsCompactOk(line.date, line.time) THEN Raise({})
         ELSE LET size == IF line.size # <<>> THEN Cell(IntVal(line.size))
                          ELSE Empty
                  row == WriteEntry("namesys", n + 1, "HDFS_NAMESYSTEM",
                                    DeterministicActionTypeId("update"),
                                    TsHdfsCompact(line.date, line.time),
                                    "", line.ip, Cell(IntVal(line.block)), size)
              IN  [crash |-> FALSE, rows |-> <<row>>, detail |-> <<>>,
                   names |-> {"update"}]
    ELSE IF NamesysAskReplicateRegexMatch(line)
    THEN IF ~TsHdfsCompactOk(line.date, line.time) THEN Raise({})
         ELSE [crash |-> FALSE, rows |-> ReplicateRows(line, n),
               detail |-> <<>>, names |-> {"replicate"}]
    ELSE Skip

\* the body of the loop of the worker w of the pipeline that runs
ParseLine(w, line, n) ==
    CASE w = "access" -> IF pipeline = "csv_parser"
                         THEN CsvParserAccessLine(line, n)
                         ELSE ParseAccessLine(line, n)
      [] w = "datax" -> ParseDataxLine(line, n)
      [] w = "namesys" -> IF pipeline = "csv_parser"
                          THEN CsvParserNamesysLine(line, n)
                          ELSE ParseNamesysLine(line, n)

\* The worker opens its staging files for writing (the header is written,
\* earlier content is gone) and then its input; a missing input file raises
\* FileNotFoundError inside the with block.
WorkerOpen(w) ==
    /\ wpc[w] = "ready"
    /\ \E inputExists \in BOOLEAN :
          wpc' = [wpc EXCEPT ![w] = IF inputExists THEN "run" ELSE "crashed"]
    /\ tmpEntry' = [tmpEntry EXCEPT ![w] = File(<<>>)]
    /\ tmpDetail' = IF w = "access" THEN File(<<>>) ELSE tmpDetail
    /\ names' = [names EXCEPT ![w] = {}]
    /\ UNCHANGED <<mpc, failure, nread, lastLine, lastBefore, tmpActions, out, wrote>>
    /\ UNCHANGED <<countVars, loadVars>>

\* One iteration of "for raw_line in infile".
WorkerLine(w, line) ==
    /\ wpc[w] = "run"
    /\ nread[w] < MaxLines
    /\ LET r == ParseLine(w, line, Len(tmpEntry[w].rows))
       IN  /\ wpc' = [wpc EXCEPT ![w] = IF r.crash THEN "crashed" ELSE "run"]
           /\ tmpEntry' = [tmpEntry EXCEPT ![w] = File(@.rows \o r.rows)]
           /\ tmpDetail' = IF w = "access"
                           THEN File(tmpDetail.rows \o r.detail) ELSE tmpDetail
           /\ names' = [names EXCEPT ![w] = @ \cup r.names]
    /\ nread' = [nread EXCEPT ![w] = @ + 1]
    /\ lastLine' = [lastLine EXCEPT ![w] = line]
    /\ lastBefore' = [lastBefore EXCEPT ![w] = Len(tmpEntry[w].rows)]
    /\ UNCHANGED <<mpc, failure, tmpActions, out, wrote>>
    /\ UNCHANGED <<countVars, loadVars>>

\* End of the input: the with blocks close the staging files.
WorkerEOF(w) ==
    /\ wpc[w] = "run"
    /\ wpc' = [wpc EXCEPT ![w] = "flush"]
    /\ UNCHANGED <<mpc, failure, nread, lastLine, lastBefore, names, tmpEntry,
                   tmpDetail, tmpActions, out, wrote>>
    /\ UNCHANGED <<countVars, loadVars>>

\* the action names are written while the input is still being read
WorkerFlushEarly(w) ==
    /\ wpc[w] \in {"run", "flush"}
    /\ tmpActions' = [tmpActions EXCEPT ![w] = File(WriteActionTypes(names[w]))]
    /\ wpc' = [wpc EXCEPT ![w] = "done"]
    /\ UNCHANGED <<mpc, failure, nread, lastLine, lastBefore, names, tmpEntry,
                   tmpDetail, out, wrote>>
    /\ UNCHANGED <<countVars, loadVars>>

\* write_action_types(...), the last statement of the worker.
WorkerFlush(w) ==
    /\ wpc[w] = "flush"
    /\ tmpActions' = [tmpActions EXCEPT ![w] = File(WriteActionTypes(names[w]))]
    /\ wpc' = [wpc EXCEPT ![w] = "done"]
    /\ UNCHANGED <<mpc, failure, nread, lastLine, lastBefore, names, tmpEntry,
                   tmpDetail, out, wrote>>
    /\ UNCHANGED <<countVars, loadVars>>

-----------------------------------------------------------------------------
(* Merge: src/ingest/merge.py *)

\* no comparison of the two identifiers
IdsNeverDiffer(a, b) == FALSE

\* all_types[name] != uuid_value
IdsDiffer(a, b) == a # b

\* merge_action_types, the loop over the rows of one file.  acc.types is
\* all_types as a set of rows; acc.err names the exception raised so far.
RECURSIVE MergeRows(_, _)
MergeRows(rs, acc) ==
    IF acc.err # "none" \/ rs = <<>> THEN acc
    ELSE LET r == Head(rs)
             known == {t \in acc.types : t.name = r.name}
         IN  IF known = {}
             THEN MergeRows(Tail(rs), [acc EXCEPT !.types = @ \cup {r}])
             ELSE IF \E t \in known : IdsDiffer(t.id, r.id)
             THEN [acc EXCEPT !.err = "ValueError"]
             ELSE MergeRows(Tail(rs), acc)

RECURSIVE MergePaths(_, _)
MergePaths(files, acc) ==
    IF acc.err # "none" \/ files = <<>> THEN acc
    ELSE IF ~Head(files).exists THEN [acc EXCEPT !.err = "FileNotFoundError"]
    ELSE MergePaths(Tail(files), MergeRows(Head(files).rows, acc))

\* merge_action_types, up to the point where it opens action_type.csv
MergeActionTypes(files) == MergePaths(files, [err |-> "none", types |-> {}])

\* the rows merge_action_types writes: sorted(all_types.items())
ActionTypeRows(types) ==
    LET ns == Sorted({t.name : t \in types})
    IN  [i \in 1..Len(ns) |-> CHOOSE t \in types : t.name = ns[i]]

\* the rows of a later file are put in front of the rows of an earlier one
RECURSIVE MergeCsvFilesFront(_, _)
MergeCsvFilesFront(files, acc) ==
    IF files = <<>> THEN acc
    ELSE IF ~Head(files).exists THEN [acc EXCEPT !.err = "FileNotFoundError"]
    ELSE MergeCsvFilesFront(Tail(files), [acc EXCEPT !.rows = Head(files).rows \o @])

\* merge_csv_files, the loop over tmp_paths; the output is open already
RECURSIVE MergeCsvFiles(_, _)
MergeCsvFiles(files, acc) ==
    IF files = <<>> THEN acc
    ELSE IF ~Head(files).exists THEN [acc EXCEPT !.err = "FileNotFoundError"]
    ELSE MergeCsvFiles(Tail(files), [acc EXCEPT !.rows = @ \o Head(files).rows])

\* write_log_type_csv: one row per LogType
LogTypeRows == [i \in 1..Len(LogTypes) |-> [id |-> i, name |-> LogTypes[i]]]

-----------------------------------------------------------------------------
(* The coordinator: src/ingest/parse.py, main *)

\* The paths main builds, as their parts: parsed/tmp/log_entry_datax.csv is
\* <<"parsed", "tmp", "log_entry", "datax">>.
TMP_DIRNAME == "tmp"

\* LogType.filename
Filename(lt) ==
    CASE lt = "ACCESS" -> "access_log_full"
      [] lt = "HDFS_DATAXCEIVER" -> "HDFS_DataXceiver.log"
      [] lt = "HDFS_NAMESYSTEM" -> "HDFS_FS_Namesystem.log"

InputPath(w) == <<"input-logfiles", Filename(WorkerLogType(w))>>

TmpEntryPath(w) == <<"parsed", TMP_DIRNAME, "log_entry", w>>

TmpDetailPath == <<"parsed", TMP_DIRNAME, "access_detail", "access">>

TmpActionsPath(w) == <<"parsed", TMP_DIRNAME, "action_types", w>>

\* the staging files main names for a worker
OwnStaging(w) ==
    {TmpEntryPath(w), TmpActionsPath(w)}
        \cup (IF w = "access" THEN {TmpDetailPath} ELSE {})

\* path.replace(old, new)
Replace(path, old, new) ==
    [i \in 1..Len(path) |-> IF path[i] = old THEN new ELSE path[i]]

\* every worker derives the path from the record stream of the access worker
WorkerActionPathShared(w) ==
    Replace(TmpEntryPath("access"), "log_entry", "action_types")

\* write_action_types: the path a worker writes its action names to, derived
\* from the path it was given
WorkerActionPath(w) ==
    IF w = "access"
    THEN Replace(TmpDetailPath, "access_detail", "action_types")
    ELSE Replace(TmpEntryPath(w), "log_entry", "action_types")

\* the files a worker process has opened for writing, and for reading
WrittenBy(w) ==
    (IF wpc[w] \in {"unstarted", "ready"} THEN {}
     ELSE {TmpEntryPath(w)} \cup (IF w = "access" THEN {TmpDetailPath} ELSE {}))
        \cup (IF wpc[w] = "done" THEN {WorkerActionPath(w)} ELSE {})

ReadBy(w) ==
    IF wpc[w] \in {"run", "flush", "done"} \/ (wpc[w] = "crashed" /\ nread[w] > 0)
    THEN {InputPath(w)} ELSE {}

\* the order in which main starts and joins p1, p2, p3
ProcessOrder == <<"access", "datax", "namesys">>

Terminated(w) == wpc[w] \in {"done", "crashed"}

\* p.join() returns at once, whether or not the process has ended
JoinNoWait(w) == TRUE

\* p.join() never returns
JoinNever(w) == FALSE

\* p.join() returns as soon as any of the processes has ended
JoinAny(w) == \E v \in {"access", "datax", "namesys"} : wpc[v] \in {"done", "crashed"}

\* p.join(): returns when the process has ended, whatever its exit code
JoinReturns(w) == Terminated(w)

\* p1.start(), p2.start(), p3.start()
MainStart ==
    /\ mpc[1] = "start"
    /\ wpc' = [wpc EXCEPT ![ProcessOrder[mpc[2]]] = "ready"]
    /\ mpc' = IF mpc[2] < Len(ProcessOrder) THEN <<"start", mpc[2] + 1>>
              ELSE <<"join", 1>>
    /\ UNCHANGED <<failure, nread, lastLine, lastBefore, names, tmpEntry,
                   tmpDetail, tmpActions, out, wrote>>
    /\ UNCHANGED <<countVars, loadVars>>

\* p1.join(), p2.join(), p3.join()
MainJoin ==
    /\ mpc[1] = "join"
    /\ JoinReturns(ProcessOrder[mpc[2]])
    /\ mpc' = IF mpc[2] < Len(ProcessOrder) THEN <<"join", mpc[2] + 1>>
              ELSE <<"write_log_type_csv", 0>>
    /\ UNCHANGED <<failure, wpc, nread, lastLine, lastBefore, names, tmpEntry,
                   tmpDetail, tmpActions, out, wrote>>
    /\ UNCHANGED <<countVars, loadVars>>

\* write_log_type_csv(outdir)
MainWriteLogType ==
    /\ mpc[1] = "write_log_type_csv"
    /\ out' = [out EXCEPT ![LOG_TYPE_FILENAME] = File(LogTypeRows)]
    /\ wrote' = wrote \cup {LOG_TYPE_FILENAME}
    /\ mpc' = <<"merge_action_types", 0>>
    /\ UNCHANGED <<failure, wpc, nread, lastLine, lastBefore, names, tmpEntry,
                   tmpDetail, tmpActions>>
    /\ UNCHANGED <<countVars, loadVars>>

\* merge_action_types([tmp_access_actions, tmp_datax_actions, tmp_namesys_actions], outdir)
MainMergeActionTypes ==
    /\ mpc[1] = "merge_action_types"
    /\ LET r == MergeActionTypes([i \in 1..Len(ProcessOrder) |->
                                     tmpActions[ProcessOrder[i]]])
       IN  IF r.err # "none"
           THEN /\ mpc' = <<"failed", 0>>
                /\ failure' = r.err
                /\ UNCHANGED <<out, wrote>>
           ELSE /\ out' = [out EXCEPT ![ACTION_TYPE_FILENAME] =
                                          File(ActionTypeRows(r.types))]
                /\ wrote' = wrote \cup {ACTION_TYPE_FILENAME}
                /\ mpc' = <<"merge_log_entry", 0>>
                /\ UNCHANGED failure
    /\ UNCHANGED <<wpc, nread, lastLine, lastBefore, names, tmpEntry,
                   tmpDetail, tmpActions>>
    /\ UNCHANGED <<countVars, loadVars>>

\* merge_csv_files([tmp_access_entry, tmp_datax_entry, tmp_namesys_entry], log_entry.csv, ...)
MainMergeLogEntry ==
    /\ mpc[1] = "merge_log_entry"
    /\ LET r == MergeCsvFiles([i \in 1..Len(ProcessOrder) |->
                                  tmpEntry[ProcessOrder[i]]],
                              [err |-> "none", rows |-> <<>>])
       IN  /\ out' = [out EXCEPT ![LOG_ENTRY_FILENAME] = File(r.rows)]
           /\ wrote' = wrote \cup {LOG_ENTRY_FILENAME}
           /\ mpc' = IF r.err # "none" THEN <<"failed", 0>>
                     ELSE <<"merge_access_detail", 0>>
           /\ failure' = r.err
    /\ UNCHANGED <<wpc, nread, lastLine, lastBefore, names, tmpEntry,
                   tmpDetail, tmpActions>>
    /\ UNCHANGED <<countVars, loadVars>>

\* merge_csv_files([tmp_access_detail], log_access_detail.csv, ...)
MainMergeAccessDetail ==
    /\ mpc[1] = "merge_access_detail"
    /\ LET r == MergeCsvFiles(<<tmpDetail>>, [err |-> "none", rows |-> <<>>])
       IN  /\ out' = [out EXCEPT ![ACCESS_DETAIL_FILENAME] = File(r.rows)]
           /\ wrote' = wrote \cup {ACCESS_DETAIL_FILENAME}
           /\ mpc' = IF r.err # "none" THEN <<"failed", 0>> ELSE <<"done", 0>>
           /\ failure' = r.err
    /\ UNCHANGED <<wpc, nread, lastLine, lastBefore, names, tmpEntry,
                   tmpDetail, tmpActions>>
    /\ UNCHANGED <<countVars, loadVars>>

-----------------------------------------------------------------------------
(* The counting parsers: src/parse_to_csv.py, src/ingest/parser.py and    *)
(* src/parse_helper.py                                                     *)

Parsers == {"parse_to_csv.parse_access", "parse_to_csv.parse_dataxceiver",
            "parse_to_csv.parse_namesystem", "parser.parse_namesystem",
            "parser.parse_file.access", "parser.parse_file.datax",
            "parse_helper.parse_access", "parse_helper.parse_dataxceiver",
            "parse_helper.parse_namesystem"}

\* 081109 203518 143 INFO dfs.FSNamesystem: BLOCK* NameSystem.delete:
\*   blk_100 is added to invalidSet of 10.0.0.4:50010
DeleteBase ==
    [fmt |-> "namesys_op", date |-> DateGood, time |-> TimeGood,
     op |-> "delete", block |-> <<"1", "0", "0">>]

\* the lines a counting parser reads
CountLines(f) ==
    CASE f \in {"parser.parse_file.access", "parse_to_csv.parse_access",
                "parse_helper.parse_access"} -> AccessLines
      [] f \in {"parser.parse_file.datax", "parse_to_csv.parse_dataxceiver",
                "parse_helper.parse_dataxceiver"} -> DataxLines
      [] f = "parse_helper.parse_namesystem" ->
            NamesysLines \cup {DeleteBase,
                               [DeleteBase EXCEPT !.block = <<"-", "7">>],
                               [DeleteBase EXCEPT !.date = DateMonth13]}
      [] OTHER -> NamesysLines

\* make_row: the eight keys of a parsed row.  A text field without a value
\* (None, or the empty text) is written "", a number without a value Empty.
MakeRow(log_type_name, action_type_name, log_timestamp, source_ip, dest_ip, block_id, size_bytes, detail) ==
    [log_type_name |-> log_type_name, action_type_name |-> action_type_name,
     log_timestamp |-> log_timestamp, source_ip |-> source_ip,
     dest_ip |-> dest_ip, block_id |-> block_id, size_bytes |-> size_bytes,
     detail |-> detail]

\* the detail dict build_access and parse_access build
AccessDetailDict(line) ==
    [remote_name |-> line.remote_name, auth_user |-> line.auth_user,
     http_method |-> line.method, resource |-> line.resource,
     http_status |-> Cell(IntVal(line.status)),
     referrer |-> IF line.referrer = "-" THEN "" ELSE line.referrer,
     user_agent |-> line.agent]

\* json.dumps(detail): the text of the dict; JsonDumps(Empty) is the text {}
JsonDumps(d) == [json |-> d]

\* None if g["size"] == "-" else int(g["size"])
SizeOrNone(size) == IF size = <<"-">> THEN Empty ELSE Cell(IntVal(size))

\* int(size) if size else None
OptionalSize(size) == IF size # <<>> THEN Cell(IntVal(size)) ELSE Empty

\* What one iteration does: inc is added to matched and rows are the rows
\* built (or the row yielded) before the function goes on or stops at its
\* yield; later are the rows the same iteration yields when it is resumed;
\* crash says that an exception left the loop.
NoMatch == [crash |-> FALSE, inc |-> 0, rows |-> <<>>, later |-> <<>>]

Crashed(inc) == [crash |-> TRUE, inc |-> inc, rows |-> <<>>, later |-> <<>>]

Built(inc, rs) == [crash |-> FALSE, inc |-> inc, rows |-> rs, later |-> <<>>]

\* src/parse_to_csv.py, parse_access: matched += 1, then int(size), then the
\* timestamp, then the yield of the row
ParseToCsvAccessLine(line) ==
    IF ~AccessRegexMatch(line) THEN NoMatch
    ELSE IF (line.size # <<"-">> /\ ~IntOk(line.size))
            \/ ~TsApacheOk(line.timestamp)
    THEN Crashed(1)
    ELSE Built(1, <<MakeRow("ACCESS", line.method, TsApache(line.timestamp),
                            line.ip, "", Empty, SizeOrNone(line.size),
                            JsonDumps(AccessDetailDict(line)))>>)

\* src/parse_to_csv.py, parse_dataxceiver: matched += 1, then the timestamp,
\* then int(blk) in the branch of the keyword, then the yield of the row
ParseToCsvDataxLine(line) ==
    IF ~DataxRegexMatch(line) THEN NoMatch
    ELSE IF ~TsHdfsCompactOk(line.date, line.time) \/ ~IntOk(line.blk)
    THEN Crashed(1)
    ELSE Built(1, <<MakeRow("HDFS_DATAXCEIVER", DataxAction(line.op),
                            TsHdfsCompact(line.date, line.time),
                            line.src, line.dst, Cell(IntVal(line.blk)),
                            IF line.op = "Received"
                            THEN OptionalSize(line.size) ELSE Empty,
                            JsonDumps(Empty))>>)

\* src/parse_to_csv.py, parse_namesystem, a generator: matched += 1 for an
\* update line, before its timestamp is converted; for a replicate line
\* matched += 1 before the yield of the row of every destination token, so
\* the function stops at the yield of the first token and does the other
\* tokens when it is resumed.
ParseToCsvNamesystemLine(line) ==
    IF NamesysUpdateRegexMatchSpaced(line)
    THEN IF ~TsHdfsCompactOk(line.date, line.time)
         THEN Crashed(1)
         ELSE Built(1, <<MakeRow("HDFS_NAMESYSTEM", "update",
                                 TsHdfsCompact(line.date, line.time),
                                 "", line.ip, Cell(IntVal(line.block)),
                                 OptionalSize(line.size), JsonDumps(Empty))>>)
    ELSE IF NamesysAskReplicateRegexMatch(line)
    THEN IF ~TsHdfsCompactOk(line.date, line.time)
         THEN Crashed(0)
         ELSE LET toks == SelectSeq(line.dest_list, HasColon)
                  rs == [i \in 1..Len(toks) |->
                           MakeRow("HDFS_NAMESYSTEM", "replicate",
                                   TsHdfsCompact(line.date, line.time),
                                   line.src_ip, SplitHead(toks[i]),
                                   Cell(IntVal(line.block)), Empty,
                                   JsonDumps(Empty))]
              IN  IF rs = <<>> THEN NoMatch
                  ELSE [crash |-> FALSE, inc |-> 1, rows |-> <<rs[1]>>,
                        later |-> Tail(rs)]
    ELSE NoMatch

\* src/ingest/parser.py, parse_namesystem with build_namesystem_update and
\* build_namesystem_replicate: matched += 1 once per matched line, after
\* the rows of the line are built.
ParserNamesystemLine(line) ==
    IF NamesysUpdateRegexMatchSpaced(line)
    THEN IF ~TsHdfsCompactOk(line.date, line.time)
         THEN Crashed(0)
         ELSE Built(1, <<MakeRow("HDFS_NAMESYSTEM", "update",
                                 TsHdfsCompact(line.date, line.time),
                                 "", line.ip, Cell(IntVal(line.block)),
                                 OptionalSize(line.size), Empty)>>)
    ELSE IF NamesysAskReplicateRegexMatch(line)
    THEN IF ~TsHdfsCompactOk(line.date, line.time)
         THEN Crashed(0)
         ELSE Built(1, [i \in 1..Len(line.dest_list) |->
                          MakeRow("HDFS_NAMESYSTEM", "replicate",
                                  TsHdfsCompact(line.date, line.time),
                                  line.src_ip, SplitHead(line.dest_list[i]),
                                  Cell(IntVal(line.block)), Empty, Empty)])
    ELSE NoMatch

\* build_access of src/ingest/parser.py and of src/parse_helper.py: the row
\* of a matched access line
BuildAccess(line) ==
    MakeRow("ACCESS", line.method, TsApache(line.timestamp), line.ip, "",
            Empty, SizeOrNone(line.size), AccessDetailDict(line))

\* src/ingest/parser.py, parse_file with build_access or build_datax:
\* matched += 1 before the row builder runs.
ParserParseFileLine(f, line) ==
    IF f = "parser.parse_file.access"
    THEN IF ~AccessRegexMatch(line) THEN NoMatch
         ELSE IF (line.size # <<"-">> /\ ~IntOk(line.size))
                 \/ ~TsApacheOk(line.timestamp)
         THEN Crashed(1)
         ELSE Built(1, <<BuildAccess(line)>>)
    ELSE IF ~DataxRegexMatch(line) THEN NoMatch
         ELSE IF ~TsHdfsCompactOk(line.date, line.time) \/ ~IntOk(line.blk)
         THEN Crashed(1)
         ELSE Built(1, <<MakeRow("HDFS_DATAXCEIVER", DataxAction(line.op),
                                 TsHdfsCompact(line.date, line.time),
                                 line.src, line.dst, Cell(IntVal(line.blk)),
                                 IF line.op = "Received"
                                 THEN OptionalSize(line.size) ELSE Empty,
                                 Empty)>>)

\* the longest start of s that \d+ matches, and that -?\d+ matches
RECURSIVE DigitPrefix(_)
DigitPrefix(s) ==
    IF s = <<>> THEN <<>>
    ELSE IF Head(s) \notin Digits THEN <<>>
    ELSE <<Head(s)>> \o DigitPrefix(Tail(s))

SignedDigitPrefix(s) ==
    IF s = <<>> THEN <<>>
    ELSE IF Head(s) # "-" THEN DigitPrefix(s)
    ELSE IF DigitPrefix(Tail(s)) = <<>> THEN <<>>
    ELSE <<"-">> \o DigitPrefix(Tail(s))

\* src/parse_helper.py, DATAX_REGEX.match(line): the pattern has no $, takes
\* the block as blk_(-?\d+) and every group after it as optional
HelperDataxRegexMatch(line) ==
    /\ line.fmt = "datax"
    /\ Len(line.date) = 6 /\ AllDigits(line.date)
    /\ Len(line.time) = 6 /\ AllDigits(line.time)
    /\ line.op \in {"Receiving", "Received", "Served"}
    /\ SignedDigitPrefix(line.blk) # <<>>

\* src/parse_helper.py, NAMESYS_REGEX.match(line): NameSystem.<op>: and then
\* blk_(\d+); the optional group before the block wants a blank after the
\* address, where the update lines have a colon and the port
HelperNamesysRegexMatch(line) ==
    /\ line.fmt = "namesys_op"
    /\ Len(line.date) = 6 /\ AllDigits(line.date)
    /\ Len(line.time) = 6 /\ AllDigits(line.time)
    /\ DigitPrefix(line.block) # <<>>

\* str.lower() on the keyword of a line
Lower(op) ==
    CASE op = "Receiving" -> "receiving"
      [] op = "Received" -> "received"
      [] op = "Served" -> "served"
      [] OTHER -> op

\* src/parse_helper.py, build_datax: src_ip and dest_ip are the groups after
\* src: and dest:, which are there when the pattern took the whole block
\* token of a Receiving or Received line; size_bytes is None
HelperBuildDatax(line) ==
    LET whole == SignedDigitPrefix(line.blk) = line.blk /\ line.op # "Served"
    IN  MakeRow("HDFS_DATAXCEIVER", Lower(line.op),
                TsHdfsCompact(line.date, line.time),
                IF whole THEN line.src ELSE "",
                IF whole THEN line.dst ELSE "",
                Cell(IntVal(SignedDigitPrefix(line.blk))), Empty, Empty)

\* src/parse_helper.py, build_namesystem
HelperBuildNamesystem(line) ==
    MakeRow("HDFS_NAMESYSTEM", Lower(line.op),
            TsHdfsCompact(line.date, line.time), "", "",
            Cell(NatVal(DigitPrefix(line.block))), Empty, Empty)

\* the path a parser of src/parse_helper.py is called with in parse_all
HelperPath(f) ==
    CASE f = "parse_helper.parse_access" -> "access_log_full"
      [] f = "parse_helper.parse_dataxceiver" -> "HDFS_DataXceiver.log"
      [] f = "parse_helper.parse_namesystem" -> "HDFS_FS_Namesystem.log"

\* src/parse_helper.py, make_row: the keys of make_row and file_name,
\* line_number and raw_message
HelperMakeRow(row, file_name, line_number, raw_message) ==
    [k \in DOMAIN row \cup {"file_name", "line_number", "raw_message"} |->
        CASE k = "file_name" -> file_name
          [] k = "line_number" -> line_number
          [] k = "raw_message" -> raw_message
          [] OTHER -> row[k]]

\* src/parse_helper.py, parse_file with build_access, build_datax or
\* build_namesystem: matched += 1 before the row builder runs
ParseHelperLine(f, line, line_no) ==
    LET matches == CASE f = "parse_helper.parse_access" -> AccessRegexMatch(line)
                     [] f = "parse_helper.parse_dataxceiver" ->
                           HelperDataxRegexMatch(line)
                     [] f = "parse_helper.parse_namesystem" ->
                           HelperNamesysRegexMatch(line)
        raises == IF f = "parse_helper.parse_access"
                  THEN (line.size # <<"-">> /\ ~IntOk(line.size))
                       \/ ~TsApacheOk(line.timestamp)
                  ELSE ~TsHdfsCompactOk(line.date, line.time)
        row == CASE f = "parse_helper.parse_access" -> BuildAccess(line)
                 [] f = "parse_helper.parse_dataxceiver" -> HelperBuildDatax(line)
                 [] f = "parse_helper.parse_namesystem" ->
                       HelperBuildNamesystem(line)
    IN  IF ~matches THEN NoMatch
        ELSE IF raises THEN Crashed(1)
        ELSE Built(1, <<HelperMakeRow(row, HelperPath(f), line_no, line)>>)

CountLineResult(f, line, line_no) ==
    CASE f = "parse_to_csv.parse_access" -> ParseToCsvAccessLine(line)
      [] f = "parse_to_csv.parse_dataxceiver" -> ParseToCsvDataxLine(line)
      [] f = "parse_to_csv.parse_namesystem" -> ParseToCsvNamesystemLine(line)
      [] f = "parser.parse_namesystem" -> ParserNamesystemLine(line)
      [] f \in {"parser.parse_file.access", "parser.parse_file.datax"} ->
            ParserParseFileLine(f, line)
      [] OTHER -> ParseHelperLine(f, line, line_no)

\* One iteration of the loop over the lines of the file, up to its end or
\* to its first yield: total += 1 first.
CountLine(line) ==
    /\ cpc = "run"
    /\ pending = <<>>
    /\ total < MaxLines
    /\ total' = total + 1
    /\ LET r == CountLineResult(parser, line, total + 1)
       IN  /\ matched' = matched + r.inc
           /\ rows' = rows \o r.rows
           /\ pending' = r.later
           /\ cpc' = IF r.crash THEN "crashed" ELSE "run"
    /\ UNCHANGED parser
    /\ UNCHANGED <<pipeVars, loadVars>>

\* parse_to_csv.parse_namesystem is resumed inside the loop over the
\* destination tokens: matched += 1 and the yield of the row of the next
\* token.
CountNextToken ==
    /\ cpc = "run"
    /\ pending # <<>>
    /\ matched' = matched + 1
    /\ rows' = Append(rows, Head(pending))
    /\ pending' = Tail(pending)
    /\ UNCHANGED <<parser, cpc, total>>
    /\ UNCHANGED <<pipeVars, loadVars>>

\* End of the file: the parser logs "matched {matched}/{total}".
CountEOF ==
    /\ cpc = "run"
    /\ pending = <<>>
    /\ cpc' = "done"
    /\ UNCHANGED <<parser, total, matched, rows, pending>>
    /\ UNCHANGED <<pipeVars, loadVars>>

-----------------------------------------------------------------------------
(* The COPY loader: src/ingest/load.py and src/ingest/copy_loader.py *)

\* The repository holds the COPY loader twice, with the same truncate_all
\* and copy_csv and the same four calls in main; the two differ in the
\* column list of log_access_detail.  The variable copier says which runs.
Copiers == {"load", "copy_loader"}

\* config.py: the header of the record streams and of log_entry.csv
ENTRY_FIELDS ==
    <<"id", "log_type_id", "action_type_id", "log_timestamp", "source_ip",
      "dest_ip", "block_id", "size_bytes">>

\* config.py: the header of the detail files
ACCESS_DETAIL_FIELDS ==
    <<"log_entry_id", "remote_name", "auth_user", "http_method", "resource",
      "http_status", "referrer", "user_agent">>

Tables == {"log_type", "action_type", "log_entry", "log_access_detail"}

EmptyDb == [t \in Tables |-> <<>>]

\* the csv file load.main passes for a table
CsvOf(table) ==
    CASE table = "log_type" -> LOG_TYPE_FILENAME
      [] table = "action_type" -> ACTION_TYPE_FILENAME
      [] table = "log_entry" -> LOG_ENTRY_FILENAME
      [] table = "log_access_detail" -> ACCESS_DETAIL_FILENAME

\* the fields of the lines of a canonical file, in order
FileFields(table) ==
    CASE table = "log_entry" -> ENTRY_FIELDS
      [] table = "log_access_detail" -> ACCESS_DETAIL_FIELDS
      [] OTHER -> <<"id", "name">>

\* the column list main passes for a table: load.main lists seven columns
\* for log_access_detail (no http_method), copy_loader.main all eight
CopyColumns(table) ==
    CASE table = "log_entry" ->
            <<"id", "log_type_id", "action_type_id", "log_timestamp",
              "source_ip", "dest_ip", "block_id", "size_bytes">>
      [] table = "log_access_detail" ->
            IF copier = "copy_loader"
            THEN <<"log_entry_id", "remote_name", "auth_user", "http_method",
                   "resource", "http_status", "referrer", "user_agent">>
            ELSE <<"log_entry_id", "remote_name", "auth_user", "resource",
                   "http_status", "referrer", "user_agent">>
      [] OTHER -> <<"id", "name">>

\* COPY ... FROM STDIN WITH (FORMAT csv, HEADER true) skips the header line
\* and takes the i-th field of every other line as the i-th listed column;
\* a line with more or fewer fields than columns is an error.
CopyFits(fields, columns, rs) == rs = <<>> \/ Len(fields) = Len(columns)

CopyRow(fields, columns, r) ==
    [c \in {columns[i] : i \in 1..Len(columns)} |->
        r[fields[CHOOSE i \in 1..Len(columns) : columns[i] = c]]]

\* the keys of a table
KeysOf(rs) == {rs[i].id : i \in 1..Len(rs)}

\* models.py: the references of log_entry and log_access_detail
ReferencesOk(table, d, new) ==
    CASE table = "log_entry" ->
            \A i \in 1..Len(new) :
               /\ new[i].log_type_id \in KeysOf(d.log_type)
               /\ new[i].action_type_id \in KeysOf(d.action_type)
      [] table = "log_access_detail" ->
            \A i \in 1..Len(new) : new[i].log_entry_id \in KeysOf(d.log_entry)
      [] OTHER -> TRUE

\* copy_csv(conn, table, csv_path, columns): the exception it ends with, or
\* "none" and the rows it adds
CopyCsv(table, d) ==
    LET f == out[CsvOf(table)]
        fits == CopyFits(FileFields(table), CopyColumns(table), f.rows)
        new == IF fits
               THEN [i \in 1..Len(f.rows) |->
                       CopyRow(FileFields(table), CopyColumns(table), f.rows[i])]
               ELSE <<>>
    IN  IF ~f.exists THEN [err |-> "FileNotFoundError", rows |-> <<>>]
        ELSE IF ~fits \/ ~ReferencesOk(table, d, new)
        THEN [err |-> "DatabaseError", rows |-> <<>>]
        ELSE [err |-> "none", rows |-> new]

\* main is started and leaves the tables as they are
LoadNoTruncate ==
    /\ lpc = "off"
    /\ mpc[1] \in {"done", "failed"}
    /\ \E c \in Copiers : (copier \in {"none", c}) /\ copier' = c
    /\ UNCHANGED db
    /\ lpc' = "copy_log_type"
    /\ UNCHANGED <<lfailure, input, run, snap, pipeline>>
    /\ UNCHANGED <<batchVars, pipeVars, countVars>>
    /\ UNCHANGED stagingVars

\* the tables in the order load.main loads them, and where load.main is
\* when it is about to load each of them
LoadOrder == <<"log_type", "action_type", "log_entry", "log_access_detail">>

CopyPhase ==
    <<"copy_log_type", "copy_action_type", "copy_log_entry",
      "copy_access_detail", "done">>

\* main of load.py or of copy_loader.py is started once the parse program
\* has ended (the second run of the pipeline starts the loader the first
\* run started); truncate_all(conn)
LoadTruncateAll ==
    /\ lpc = "off"
    /\ mpc[1] \in {"done", "failed"}
    /\ \E c \in Copiers : (copier \in {"none", c}) /\ copier' = c
    /\ db' = EmptyDb
    /\ lpc' = "copy_log_type"
    /\ UNCHANGED <<lfailure, input, run, snap, pipeline>>
    /\ UNCHANGED <<batchVars, pipeVars, countVars>>
    /\ UNCHANGED stagingVars

\* one copy_csv call of load.main: the rows are committed, or the
\* exception ends load.main
LoadCopy(phase, table, next) ==
    /\ lpc = phase
    /\ LET r == CopyCsv(table, db)
       IN  /\ db' = [db EXCEPT ![table] = @ \o r.rows]
           /\ lpc' = IF r.err = "none" THEN next ELSE "failed"
           /\ lfailure' = r.err
    /\ UNCHANGED <<runVars, batchVars, pipeVars, countVars>>
    /\ UNCHANGED stagingVars

LoadCopyLogType == LoadCopy("copy_log_type", "log_type", "copy_action_type")

LoadCopyActionType == LoadCopy("copy_action_type", "action_type", "copy_log_entry")

LoadCopyLogEntry == LoadCopy("copy_log_entry", "log_entry", "copy_access_detail")

LoadCopyAccessDetail == LoadCopy("copy_access_detail", "log_access_detail", "done")

-----------------------------------------------------------------------------
(* The batched loaders: src/ingest/loader.py and src/ui/ingest/loader.py *)

Loaders == {"ingest", "ui"}

\* str.upper() on the names of log types
Upper(s) ==
    CASE s = "access" -> "ACCESS"
      [] s = "hdfs_dataxceiver" -> "HDFS_DATAXCEIVER"
      [] s = "hdfs_namesystem" -> "HDFS_NAMESYSTEM"
      [] OTHER -> s

\* get_log_type_ids(conn): the rows of log_type as a mapping from name to id,
\* a later row replacing an earlier one of the same key. ingest/loader.py
\* keys the mapping by name.upper(), ui/ingest/loader.py by the name itself.
LogTypeKey(l, name) == IF l = "ingest" THEN Upper(name) ELSE name

GetLogTypeIds(l, t) ==
    LET n == Len(t.log_type)
        keys == {LogTypeKey(l, t.log_type[i].name) : i \in 1..n}
    IN  [k \in keys |->
           t.log_type[CHOOSE i \in 1..n :
                         /\ LogTypeKey(l, t.log_type[i].name) = k
                         /\ \A j \in (i + 1)..n :
                               LogTypeKey(l, t.log_type[j].name) # k].id]

\* a lookup that never finds the name
SelectActionTypeBlind(t, name) == <<>>

\* SELECT id FROM action_type WHERE name = %s: the rows found
SelectActionType(t, name) ==
    SelectSeq(t.action_type, LAMBDA r : r.name = name)

\* SELECT the id of the name, or INSERT the name and take the id returned.
\* created says that a row was inserted (ui/ingest/loader.py commits then).
GetOrCreateActionType(t, s, name) ==
    LET found == SelectActionType(t, name)
        new_id == s.action_type + 1
    IN  IF found # <<>>
        THEN [id |-> Cell(found[1].id), tx |-> t, seq |-> s, created |-> FALSE]
        ELSE [id |-> Cell(new_id),
              tx |-> [t EXCEPT !.action_type =
                         Append(@, [id |-> new_id, name |-> name])],
              seq |-> [s EXCEPT !.action_type = new_id],
              created |-> TRUE]

NoActionId(t, s) == [id |-> Empty, tx |-> t, seq |-> s, created |-> FALSE]

\* a get_action_type_id without the test of the name
GetActionTypeIdAnyName(t, s, name) == GetOrCreateActionType(t, s, name)

\* ingest/loader.py get_action_type_id(conn, name): no id for a missing or
\* empty name, else the id found or created
GetActionTypeId(t, s, name) ==
    IF name = "" THEN NoActionId(t, s) ELSE GetOrCreateActionType(t, s, name)

\* ui/ingest/loader.py get_action_type_id(conn, name): the id found or created
UiGetActionTypeId(t, s, name) == GetOrCreateActionType(t, s, name)

\* the action id of a row: ingest/loader.py calls get_action_type_id for
\* every row, ui/ingest/loader.py only if the row has an action name
ActionIdOf(l, t, s, name) ==
    IF l = "ingest" THEN GetActionTypeId(t, s, name)
    ELSE IF name # "" THEN UiGetActionTypeId(t, s, name)
    ELSE NoActionId(t, s)

\* the key of a row that holds the action name
ActionKey(l) == IF l = "ingest" THEN "action_type_name" ELSE "action"

\* row.get(key) for a key whose value is stored as it is: None, which the
\* INSERT writes as NULL, when the row has no such key
RowGet(row, key) == IF key \in DOMAIN row THEN row[key] ELSE Empty

\* row.get(ActionKey) as the loaders use it: both test the truth of the
\* name only, so that a missing key (None) is the same as the empty name
ActionNameOf(l, row) ==
    IF ActionKey(l) \in DOMAIN row THEN row[ActionKey(l)] ELSE ""

\* the tuple a loader appends to entry_batch
EntryTuple(l, lt_id, action_id, row) ==
    IF l = "ingest"
    THEN [log_type_id |-> lt_id, action_type_id |-> action_id,
          log_timestamp |-> row.log_timestamp, source_ip |-> row.source_ip,
          dest_ip |-> row.dest_ip, block_id |-> row.block_id,
          size_bytes |-> row.size_bytes]
    ELSE [log_type_id |-> lt_id, action_type_id |-> action_id,
          log_timestamp |-> row.log_timestamp, source_ip |-> row.source_ip,
          dest_ip |-> row.dest_ip, block_id |-> row.block_id,
          size_bytes |-> row.size_bytes,
          file_name |-> RowGet(row, "file_name"),
          line_number |-> RowGet(row, "line_number"),
          raw_message |-> RowGet(row, "raw_message")]

\* if row.get("detail"): a missing detail and an empty one are not staged
HasDetail(row) == row.detail.present

\* the position staged with a detail: ingest/loader.py stages
\* idx = len(entry_batch) taken before the append, ui/ingest/loader.py the
\* count of enumerate(rows, 1)
StagedIdx(l, batch, r) == IF l = "ingest" THEN Len(batch) ELSE r

\* a test that lets the batch grow past BATCH_SIZE
BatchOverfull(batch) == Len(batch) > BATCH_SIZE

\* if len(entry_batch) >= BATCH_SIZE
BatchFull(batch) == Len(batch) >= BATCH_SIZE

\* the ids paired with the staged details in order, whatever was staged
StagedEntryIdPaired(l, entry_ids, staging, j) == entry_ids[j]

\* the id a detail row gets: _flush_entry_batch takes entry_ids[idx] of the
\* staged idx, flush_entry_batch pairs the lists with zip
StagedEntryId(l, entry_ids, staging, j) ==
    IF l = "ingest" THEN entry_ids[staging[j][1] + 1] ELSE entry_ids[j]

\* the tuple inserted into log_access_detail
DetailTuple(entry_id, detail) ==
    [log_entry_id |-> entry_id, remote_name |-> detail.remote_name,
     auth_user |-> detail.auth_user, http_method |-> detail.http_method,
     resource |-> detail.resource, http_status |-> detail.http_status,
     referrer |-> detail.referrer, user_agent |-> detail.user_agent]

\* _flush_entry_batch / flush_entry_batch when both statements succeed:
\* INSERT ... RETURNING id gives the rows the next ids of the sequence, in
\* the order of the batch; then the detail rows are inserted.
FlushEntryBatch(l, t, s, batch, staging) ==
    LET n == Len(batch)
        entry_ids == [i \in 1..n |-> s.log_entry + i]
        entries == [i \in 1..n |->
                      [f \in DOMAIN batch[i] \cup {"id"} |->
                          IF f = "id" THEN entry_ids[i] ELSE batch[i][f]]]
        details == [j \in 1..Len(staging) |->
                      DetailTuple(StagedEntryId(l, entry_ids, staging, j),
                                  staging[j][2])]
    IN  [tx |-> [t EXCEPT !.log_entry = @ \o entries,
                          !.log_access_detail = @ \o details],
         seq |-> [s EXCEPT !.log_entry = @ + n],
         inserted |-> n]

\* the rows the loop is over, and the records (log_timestamp) of a batch
CurRows == parsed[kpos][2]

BatchRecords(batch) == {batch[i].log_timestamp : i \in 1..Len(batch)}

\* load(conn, parsed) is called: get_log_type_ids, then the with conn block
\* is entered
LoadBegin ==
    /\ loader = "ingest"
    /\ bpc = "off"
    /\ log_type_ids' = GetLogTypeIds(loader, tx)
    /\ kpos' = 1
    /\ bpc' = "key"
    /\ step' = "call"
    /\ UNCHANGED <<loader, bfailure, parsed, tx, seq, rpos, log_type_id,
                   entry_batch, detail_staging, inserted_count, calls, flushed>>
    /\ UNCHANGED <<copyVars, runVars, pipeVars, countVars>>
    /\ UNCHANGED stagingVars

\* load: an item of parsed whose key is not a log type of the warehouse is
\* skipped
LoadSkipLogType ==
    /\ loader = "ingest"
    /\ bpc = "key"
    /\ kpos <= Len(parsed)
    /\ Upper(parsed[kpos][1]) \notin DOMAIN log_type_ids
    /\ kpos' = kpos + 1
    /\ step' = "skip"
    /\ UNCHANGED <<loader, bpc, bfailure, parsed, tx, seq, log_type_ids, rpos,
                   log_type_id, entry_batch, detail_staging, inserted_count,
                   calls, flushed>>
    /\ UNCHANGED <<copyVars, runVars, pipeVars, countVars>>
    /\ UNCHANGED stagingVars

\* load: _insert_for_log_type is called for an item of a known log type
LoadInsertForLogType ==
    /\ loader = "ingest"
    /\ bpc = "key"
    /\ kpos <= Len(parsed)
    /\ Upper(parsed[kpos][1]) \in DOMAIN log_type_ids
    /\ log_type_id' = log_type_ids[Upper(parsed[kpos][1])]
    /\ entry_batch' = <<>>
    /\ detail_staging' = <<>>
    /\ inserted_count' = 0
    /\ rpos' = 1
    /\ bpc' = "row"
    /\ step' = "enter"
    /\ UNCHANGED <<loader, bfailure, parsed, tx, seq, log_type_ids, kpos, calls,
                   flushed>>
    /\ UNCHANGED <<copyVars, runVars, pipeVars, countVars>>
    /\ UNCHANGED stagingVars

\* load: the with conn block is left without an exception, which commits
\* the transaction
LoadCommit ==
    /\ loader = "ingest"
    /\ bpc = "key"
    /\ kpos > Len(parsed)
    /\ db' = tx
    /\ bpc' = "done"
    /\ step' = "commit"
    /\ UNCHANGED <<lpc, lfailure>>
    /\ UNCHANGED <<loader, bfailure, parsed, tx, seq, log_type_ids, kpos, rpos,
                   log_type_id, entry_batch, detail_staging, inserted_count,
                   calls, flushed>>
    /\ UNCHANGED <<runVars, pipeVars, countVars>>
    /\ UNCHANGED stagingVars

\* insert_logs(conn, parsed) is called: get_log_type_ids, then the rows of
\* the first item of parsed are flattened (the loop is left by break) and
\* insert_log_entries is called on them
InsertLogsBegin ==
    /\ loader = "ui"
    /\ bpc = "off"
    /\ log_type_ids' = GetLogTypeIds(loader, tx)
    /\ kpos' = 1
    /\ step' = "call"
    /\ IF parsed[1][1] \in DOMAIN log_type_ids'
       THEN /\ log_type_id' = log_type_ids'[parsed[1][1]]
            /\ entry_batch' = <<>>
            /\ detail_staging' = <<>>
            /\ rpos' = 1
            /\ bpc' = "row"
            /\ UNCHANGED bfailure
       ELSE /\ bpc' = "failed"
            /\ bfailure' = "KeyError"
            /\ UNCHANGED <<log_type_id, entry_batch, detail_staging, rpos>>
    /\ UNCHANGED <<loader, parsed, tx, seq, inserted_count, calls, flushed>>
    /\ UNCHANGED <<copyVars, runVars, pipeVars, countVars>>
    /\ UNCHANGED stagingVars

\* One iteration of the loop over the rows, up to the test of the batch
\* size: the action id is resolved, the tuple is appended and the detail
\* staged.
InsertAppend ==
    /\ bpc = "row"
    /\ rpos <= Len(CurRows)
    /\ LET row == CurRows[rpos]
           a == ActionIdOf(loader, tx, seq, ActionNameOf(loader, row))
       IN  /\ tx' = a.tx
           /\ seq' = a.seq
           /\ db' = IF loader = "ui" /\ a.created THEN a.tx ELSE db
           /\ entry_batch' =
                 Append(entry_batch, EntryTuple(loader, log_type_id, a.id, row))
           /\ detail_staging' =
                 IF HasDetail(row)
                 THEN Append(detail_staging,
                             <<StagedIdx(loader, entry_batch, rpos), row.detail>>)
                 ELSE detail_staging
    /\ rpos' = rpos + 1
    /\ bpc' = "check"
    /\ step' = "append"
    /\ UNCHANGED <<lpc, lfailure>>
    /\ UNCHANGED <<loader, bfailure, parsed, log_type_ids, kpos, log_type_id,
                   inserted_count, calls, flushed>>
    /\ UNCHANGED <<runVars, pipeVars, countVars>>
    /\ UNCHANGED stagingVars

\* A flush that raises: the exception leaves the loader. In load it leaves
\* the with conn block, which rolls the transaction back; insert_logs has
\* committed the earlier batches.
FlushRaises ==
    /\ bpc' = "failed"
    /\ bfailure' = "DatabaseError"
    /\ tx' = db
    /\ UNCHANGED <<db, seq, entry_batch, detail_staging, inserted_count, flushed>>

\* A flush that succeeds; flush_entry_batch commits at its end.
FlushDone ==
    LET r == FlushEntryBatch(loader, tx, seq, entry_batch, detail_staging)
    IN  /\ tx' = r.tx
        /\ seq' = r.seq
        /\ db' = IF loader = "ui" THEN r.tx ELSE db
        /\ inserted_count' =
              IF loader = "ingest" THEN inserted_count + r.inserted
              ELSE inserted_count
        /\ flushed' = flushed \cup BatchRecords(entry_batch)
        /\ UNCHANGED bfailure

\* The rest of the iteration when the batch is full: the batch is flushed
\* and both lists are cleared.
InsertFlushFull ==
    /\ bpc = "check"
    /\ BatchFull(entry_batch)
    /\ step' = "flush_full"
    /\ \/ /\ FlushDone
          /\ entry_batch' = <<>>
          /\ detail_staging' = <<>>
          /\ bpc' = "row"
       \/ FlushRaises
    /\ UNCHANGED <<lpc, lfailure>>
    /\ UNCHANGED <<loader, parsed, log_type_ids, kpos, rpos, log_type_id, calls>>
    /\ UNCHANGED <<runVars, pipeVars, countVars>>
    /\ UNCHANGED stagingVars

\* The rest of the iteration when the batch is not full
InsertNoFlush ==
    /\ bpc = "check"
    /\ ~BatchFull(entry_batch)
    /\ bpc' = "row"
    /\ step' = "no_flush"
    /\ UNCHANGED <<loader, bfailure, parsed, tx, seq, log_type_ids, kpos, rpos,
                   log_type_id, entry_batch, detail_staging, inserted_count,
                   calls, flushed>>
    /\ UNCHANGED <<copyVars, runVars, pipeVars, countVars>>
    /\ UNCHANGED stagingVars

\* After the last row the function returns; what is left in entry_batch is
\* not flushed
InsertReturnsUnflushed ==
    /\ bpc = "row"
    /\ rpos > Len(CurRows)
    /\ step' = "return"
    /\ bpc' = IF loader = "ingest" THEN "key" ELSE "done"
    /\ kpos' = kpos + 1
    /\ UNCHANGED <<db, tx, seq, bfailure, entry_batch, detail_staging,
                   inserted_count, flushed>>
    /\ UNCHANGED <<lpc, lfailure>>
    /\ UNCHANGED <<loader, parsed, log_type_ids, rpos, log_type_id, calls>>
    /\ UNCHANGED <<runVars, pipeVars, countVars>>
    /\ UNCHANGED stagingVars

\* After the last row: what is left in entry_batch is flushed, and the
\* function returns, to the loop of load or to the end of insert_logs.
InsertFinalFlush ==
    /\ bpc = "row"
    /\ rpos > Len(CurRows)
    /\ \/ /\ entry_batch # <<>>
          /\ step' = "flush_final"
          /\ \/ /\ FlushDone
                /\ UNCHANGED <<entry_batch, detail_staging>>
                /\ bpc' = IF loader = "ingest" THEN "key" ELSE "done"
                /\ kpos' = kpos + 1
             \/ /\ FlushRaises
                /\ UNCHANGED kpos
       \/ /\ entry_batch = <<>>
          /\ step' = "return"
          /\ bpc' = IF loader = "ingest" THEN "key" ELSE "done"
          /\ kpos' = kpos + 1
          /\ UNCHANGED <<db, tx, seq, bfailure, entry_batch, detail_staging,
                         inserted_count, flushed>>
    /\ UNCHANGED <<lpc, lfailure>>
    /\ UNCHANGED <<loader, parsed, log_type_ids, rpos, log_type_id, calls>>
    /\ UNCHANGED <<runVars, pipeVars, countVars>>
    /\ UNCHANGED stagingVars

\* The loader is called a second time, with the same parsed data, on a new
\* connection and without a truncate.
LoadAgain ==
    /\ calls = 1
    /\ bpc = "done"
    /\ calls' = 2
    /\ bpc' = "off"
    /\ flushed' = {}
    /\ step' = "again"
    /\ UNCHANGED <<loader, bfailure, parsed, tx, seq, log_type_ids, kpos, rpos,
                   log_type_id, entry_batch, detail_staging, inserted_count>>
    /\ UNCHANGED <<copyVars, runVars, pipeVars, countVars>>
    /\ UNCHANGED stagingVars

-----------------------------------------------------------------------------
(* The staging loader: src/load_with_copy.py *)

\* The rows of ./parsed/log_entry.csv as parse_to_csv.main writes them, the
\* rows of one log type after the other; p items of parsed are written.
\* log_type_name is the name the parser of the row put into it.
CsvRowOf(row) ==
    [log_type_name |-> row.log_type_name,
     action_type_name |-> row.action_type_name,
     log_timestamp |-> row.log_timestamp, source_ip |-> row.source_ip,
     dest_ip |-> row.dest_ip, block_id |-> row.block_id,
     size_bytes |-> row.size_bytes, detail |-> row.detail]

RECURSIVE StagingCsv(_)
StagingCsv(p) ==
    IF p = 0 THEN <<>>
    ELSE StagingCsv(p - 1)
           \o [r \in 1..Len(parsed[p][2]) |-> CsvRowOf(parsed[p][2][r])]

\* COPY ... WITH (FORMAT csv): an empty field is NULL in the TEXT column
CopyText(v) == IF v = "" THEN Empty ELSE Cell(v)

\* the row of log_entry_staging a row of the csv file becomes
StagingRow(c) ==
    [log_type_name |-> CopyText(c.log_type_name),
     action_type_name |-> CopyText(c.action_type_name),
     log_timestamp |-> c.log_timestamp, source_ip |-> CopyText(c.source_ip),
     dest_ip |-> CopyText(c.dest_ip), block_id |-> c.block_id,
     size_bytes |-> c.size_bytes, detail |-> c.detail]

\* copy_into_staging, its first transaction: FileNotFoundError when the
\* csv file is not there, else TRUNCATE log_entry_staging and the commit.
CopyIntoStagingTruncate ==
    /\ spc = "off"
    /\ \E csvExists \in BOOLEAN :
          IF csvExists
          THEN /\ log_entry_staging' = <<>>
               /\ spc' = "copy"
               /\ UNCHANGED sfailure
          ELSE /\ spc' = "failed"
               /\ sfailure' = "FileNotFoundError"
               /\ UNCHANGED log_entry_staging
    /\ UNCHANGED <<copyVars, runVars, batchVars, pipeVars, countVars>>

\* what the second transaction of copy_into_staging can end with: the open
\* of the file or the COPY raises, or the rows are committed
CopyOutcomes == {"none", "FileNotFoundError", "DatabaseError"}

\* copy_into_staging, its second transaction: the csv file is opened and
\* copied into the table, and the commit; an exception leaves the table as
\* the committed TRUNCATE left it.
CopyIntoStaging ==
    /\ spc = "copy"
    /\ \E err \in CopyOutcomes :
          IF err = "none"
          THEN /\ LET csv == StagingCsv(Len(parsed))
                  IN  log_entry_staging' =
                         [i \in 1..Len(csv) |-> StagingRow(csv[i])]
               /\ spc' = "populate"
               /\ UNCHANGED sfailure
          ELSE /\ spc' = "failed"
               /\ sfailure' = err
               /\ UNCHANGED log_entry_staging
    /\ UNCHANGED <<copyVars, runVars, batchVars, pipeVars, countVars>>

\* SELECT DISTINCT action_type_name ... WHERE it is not NULL and not ''
StagedNames ==
    {log_entry_staging[i].action_type_name[1] :
        i \in {j \in 1..Len(log_entry_staging) :
                  log_entry_staging[j].action_type_name \notin {Empty, Cell("")}}}

\* the orders in which the names of a set can come
Orders(S) ==
    {f \in [1..Cardinality(S) -> S] :
        \A i \in DOMAIN f : \A j \in DOMAIN f : f[i] = f[j] => i = j}

\* INSERT INTO action_type (name) ... ON CONFLICT (name) DO NOTHING, for
\* the names in the order given: every name draws the next id of the
\* sequence, and a name that is in the table already is left out.
RECURSIVE InsertActionTypes(_, _, _)
InsertActionTypes(t, s, order) ==
    IF order = <<>> THEN [tx |-> t, seq |-> s]
    ELSE LET new_id == s.action_type + 1
             s2 == [s EXCEPT !.action_type = new_id]
         IN  IF SelectActionType(t, Head(order)) # <<>>
             THEN InsertActionTypes(t, s2, Tail(order))
             ELSE InsertActionTypes(
                      [t EXCEPT !.action_type =
                          Append(@, [id |-> new_id, name |-> Head(order)])],
                      s2, Tail(order))

\* populate_action_types: the INSERT and the commit; the order in which
\* SELECT DISTINCT gives the names is not fixed
PopulateActionTypes ==
    /\ spc = "populate"
    /\ \E order \in Orders(StagedNames) :
          LET r == InsertActionTypes(db, seq, order)
          IN  /\ db' = r.tx
              /\ seq' = r.seq
    /\ spc' = "move"
    /\ UNCHANGED <<lpc, lfailure, sfailure, log_entry_staging>>
    /\ UNCHANGED <<loader, bpc, bfailure, parsed, tx, log_type_ids, kpos, rpos,
                   log_type_id, entry_batch, detail_staging, inserted_count,
                   calls, flushed, step>>
    /\ UNCHANGED <<runVars, pipeVars, countVars>>

\* a join that takes a log type whatever the name of the staged row
StagingJoinAnyLogType(t, s) == SubSeq(t.log_type, 1, 1)

\* JOIN log_type lt ON lt.name = s.log_type_name: the rows of log_type the
\* staged row is joined with
StagingJoinLogType(t, s) ==
    SelectSeq(t.log_type, LAMBDA lt : Cell(lt.name) = s.log_type_name)

\* LEFT JOIN action_type at ON at.name = s.action_type_name: the values of
\* at.id, NULL when no row has the name
StagingJoinActionType(t, s) ==
    LET found == SelectSeq(t.action_type,
                           LAMBDA a : Cell(a.name) = s.action_type_name)
    IN  IF found = <<>> THEN <<Empty>>
        ELSE [j \in 1..Len(found) |-> Cell(found[j].id)]

\* CASE WHEN x IS NULL OR x = '' THEN NULL ELSE x::inet END
NullIfEmptyText(v) == IF v \in {Empty, Cell("")} THEN Empty ELSE v

\* the row of the SELECT for a staged row joined with lt and at
FinalRow(lt_id, at_id, s) ==
    [log_type_id |-> lt_id, action_type_id |-> at_id,
     log_timestamp |-> s.log_timestamp,
     source_ip |-> NullIfEmptyText(s.source_ip),
     dest_ip |-> NullIfEmptyText(s.dest_ip), block_id |-> s.block_id,
     size_bytes |-> s.size_bytes, detail |-> s.detail]

\* the rows the SELECT gives for one staged row, and for all of them
SelectedFor(t, s) ==
    LET lts == StagingJoinLogType(t, s)
        ats == StagingJoinActionType(t, s)
    IN  [k \in 1..(Len(lts) * Len(ats)) |->
            FinalRow(lts[((k - 1) \div Len(ats)) + 1].id,
                     ats[((k - 1) % Len(ats)) + 1], s)]

RECURSIVE SelectedRows(_, _)
SelectedRows(t, staging) ==
    IF staging = <<>> THEN <<>>
    ELSE SelectedFor(t, Head(staging)) \o SelectedRows(t, Tail(staging))

\* move_from_staging_to_final: INSERT INTO log_entry ... SELECT, the commit,
\* and the return of cur.rowcount
MoveFromStagingToFinal ==
    /\ spc = "move"
    /\ LET sel == SelectedRows(db, log_entry_staging)
           new == [i \in 1..Len(sel) |->
                     [f \in DOMAIN sel[i] \cup {"id"} |->
                         IF f = "id" THEN seq.log_entry + i ELSE sel[i][f]]]
       IN  /\ db' = [db EXCEPT !.log_entry = @ \o new]
           /\ seq' = [seq EXCEPT !.log_entry = @ + Len(sel)]
           /\ inserted_count' = Len(sel)
    /\ spc' = "done"
    /\ UNCHANGED <<lpc, lfailure, sfailure, log_entry_staging>>
    /\ UNCHANGED <<loader, bpc, bfailure, parsed, tx, log_type_ids, kpos, rpos,
                   log_type_id, entry_batch, detail_staging, calls, flushed,
                   step>>
    /\ UNCHANGED <<runVars, pipeVars, countVars>>

-----------------------------------------------------------------------------
(* Initial states *)

NoLine == [fmt |-> "none"]

\* An identifier written by something other than deterministic_action_type_id
ForeignId(name) == Uuid5("00000000-0000-0000-0000-000000000000", name)

\* What parsed/ and parsed/tmp hold before the run: nothing, or the files
\* of an earlier run (row number 0 stands for a row of that run).
EarlierLine(w) ==
    CASE w = "access" -> [AccessBase EXCEPT !.method = "replicate"]
      [] w = "datax" -> DataxBase
      [] w = "namesys" -> ReplicateBase

EarlierEntry(w) == ParseLine(w, EarlierLine(w), 0 - 2).rows

EarlierNames(w) == ParseLine(w, EarlierLine(w), 0 - 2).names

Leftovers == {"nothing", "earlier run", "earlier run, other identifiers"}

InitFiles(left) ==
    /\ tmpEntry = [w \in Workers |->
                     IF left = "nothing" THEN NoFile ELSE File(EarlierEntry(w))]
    /\ tmpDetail = IF left = "nothing" THEN NoFile
                   ELSE File(ParseLine("access", EarlierLine("access"), 0 - 2).detail)
    /\ tmpActions = [w \in Workers |->
                       IF left = "nothing" THEN NoFile
                       ELSE IF left = "earlier run"
                       THEN File(WriteActionTypes(EarlierNames(w)))
                       ELSE File([i \in 1..1 |->
                                    [id |-> ForeignId(Sorted(EarlierNames(w))[i]),
                                     name |-> Sorted(EarlierNames(w))[i]]])]
    /\ out = [f \in CanonicalFiles |->
                IF left = "nothing" THEN NoFile
                ELSE IF f = LOG_TYPE_FILENAME THEN File(LogTypeRows)
                ELSE File(<<>>)]

InitPipeIdle ==
    /\ failure = "none"
    /\ nread = [w \in Workers |-> 0]
    /\ lastLine = [w \in Workers |-> NoLine]
    /\ lastBefore = [w \in Workers |-> 0]
    /\ names = [w \in Workers |-> {}]
    /\ wrote = {}

\* what two runs are compared on: the number of fact rows per log type and
\* the (id, name) pairs of action_type
Summary(d) ==
    [facts |-> [lt \in 1..Len(LogTypes) |->
                  Cardinality({i \in 1..Len(d.log_entry) :
                                 d.log_entry[i].log_type_id = lt})],
     catalog |-> {<<d.action_type[i].id, d.action_type[i].name>> :
                     i \in 1..Len(d.action_type)}]

\* load.main has not been started; the warehouse is empty
InitCopyIdle ==
    /\ db = EmptyDb
    /\ lpc = "off"
    /\ lfailure = "none"

\* this is the first run
InitRunIdle ==
    /\ run = 1
    /\ snap = Summary(EmptyDb)

\* no id has been drawn from the sequences
NoSeq == [action_type |-> 0, log_entry |-> 0]

\* the locals of load / insert_logs before the call
InitBatchLocals ==
    /\ bfailure = "none"
    /\ tx = db
    /\ seq = NoSeq
    /\ log_type_ids = [k \in {} |-> 0]
    /\ kpos = 1
    /\ rpos = 1
    /\ log_type_id = 0
    /\ entry_batch = <<>>
    /\ detail_staging = <<>>
    /\ inserted_count = 0
    /\ flushed = {}
    /\ step = "none"

\* load_with_copy.main is not run
InitStagingIdle ==
    /\ spc = "idle"
    /\ sfailure = "none"
    /\ log_entry_staging = <<>>

\* no batched loader is called
InitBatchIdle ==
    /\ InitStagingIdle
    /\ loader = "ingest"
    /\ bpc = "idle"
    /\ parsed = <<>>
    /\ calls = 0
    /\ InitBatchLocals

InitLoadIdle ==
    /\ InitCopyIdle
    /\ InitRunIdle
    /\ input = [w \in Workers |-> NoFile]
    /\ InitBatchIdle

InitCountIdle ==
    /\ parser = "none"
    /\ cpc = "off"
    /\ total = 0
    /\ matched = 0
    /\ rows = <<>>
    /\ pending = <<>>

\* parse.main or csv_parser.main is called
Init ==
    /\ mpc = <<"start", 1>>
    /\ wpc = [w \in Workers |-> "unstarted"]
    /\ pipeline \in Pipelines
    /\ copier = "none"
    /\ InitLoadIdle
    /\ InitPipeIdle
    /\ \E left \in Leftovers : InitFiles(left)
    /\ InitCountIdle

Next ==
    \/ MainStart
    \/ MainJoin
    \/ MainWriteLogType
    \/ MainMergeActionTypes
    \/ MainMergeLogEntry
    \/ MainMergeAccessDetail
    \/ \E w \in Workers : WorkerOpen(w)
    \/ \E w \in Workers : \E line \in PipeLines(w) : WorkerLine(w, line)
    \/ \E w \in Workers : WorkerEOF(w)
    \/ \E w \in Workers : WorkerFlush(w)

Spec == Init /\ [][Next]_vars

\* parse.main under fair scheduling of the coordinator: the main process
\* takes its next step whenever it can. Nothing is assumed of the workers:
\* a worker process may stay where it is for ever.
MainNext ==
    \/ MainStart
    \/ MainJoin
    \/ MainWriteLogType
    \/ MainMergeActionTypes
    \/ MainMergeLogEntry
    \/ MainMergeAccessDetail

\* one iteration of the loop of a worker, on an input of LiveLines lines
LiveWorkerLine(w, line) ==
    /\ nread[w] < LiveLines
    /\ WorkerLine(w, line)

NextLive ==
    \/ MainStart
    \/ MainJoin
    \/ MainWriteLogType
    \/ MainMergeActionTypes
    \/ MainMergeLogEntry
    \/ MainMergeAccessDetail
    \/ \E w \in Workers : WorkerOpen(w)
    \/ \E w \in Workers : \E line \in PipeLines(w) : LiveWorkerLine(w, line)
    \/ \E w \in Workers : WorkerEOF(w)
    \/ \E w \in Workers : WorkerFlush(w)

SpecLive == Init /\ [][NextLive]_vars /\ WF_vars(MainNext)

\* one worker function is called on its own, on any file of its format
InitLines ==
    /\ mpc = <<"off", 0>>
    /\ \E w0 \in Workers :
          wpc = [w \in Workers |-> IF w = w0 THEN "ready" ELSE "unstarted"]
    /\ pipeline \in Pipelines
    /\ copier = "none"
    /\ InitLoadIdle
    /\ InitPipeIdle
    /\ \E left \in Leftovers : InitFiles(left)
    /\ InitCountIdle

NextLines ==
    \/ \E w \in Workers : WorkerOpen(w)
    \/ \E w \in Workers : \E line \in SoloLines(w) : WorkerLine(w, line)
    \/ \E w \in Workers : WorkerEOF(w)
    \/ \E w \in Workers : WorkerFlush(w)

SpecLines == InitLines /\ [][NextLines]_vars

\* one counting parser is called on any file of its format
InitCount ==
    /\ mpc = <<"off", 0>>
    /\ wpc = [w \in Workers |-> "unstarted"]
    /\ pipeline = "parse"
    /\ copier = "none"
    /\ InitLoadIdle
    /\ InitPipeIdle
    /\ InitFiles("nothing")
    /\ parser \in Parsers
    /\ cpc = "run"
    /\ total = 0
    /\ matched = 0
    /\ rows = <<>>
    /\ pending = <<>>

NextCount ==
    \/ \E line \in CountLines(parser) : CountLine(line)
    \/ CountNextToken
    \/ CountEOF

SpecCount == InitCount /\ [][NextCount]_vars

\* The full pipeline, parse.main and then load.main, run twice on the same
\* three input files.
RunFirst(w) ==
    CASE w = "access" -> AccessBase
      [] w = "datax" -> DataxBase
      [] w = "namesys" -> ReplicateBase

\* the input files of a worker: missing, of one line, or of two lines
RunFiles(w) ==
    {NoFile} \cup {File(<<a>>) : a \in PipeLines(w)}
             \cup {File(<<RunFirst(w), a>>) : a \in PipeLines(w)}

InitRuns ==
    /\ pipeline \in Pipelines
    /\ copier = "none"
    /\ InitCopyIdle
    /\ InitRunIdle
    /\ input \in {f \in [Workers -> UNION {RunFiles(w) : w \in Workers}] :
                    \A w \in Workers : f[w] \in RunFiles(w)}
    /\ InitBatchIdle
    /\ mpc = <<"start", 1>>
    /\ wpc = [w \in Workers |-> "unstarted"]
    /\ InitPipeIdle
    /\ \E left \in Leftovers : InitFiles(left)
    /\ InitCountIdle

\* open(input_path) succeeds exactly when the file is there
RunWorkerOpen(w) ==
    /\ WorkerOpen(w)
    /\ (wpc'[w] = "run") = input[w].exists

\* the worker reads the next line of its file
RunWorkerLine(w) ==
    /\ nread[w] < Len(input[w].rows)
    /\ WorkerLine(w, input[w].rows[nread[w] + 1])

\* the worker is at the end of its file
RunWorkerEOF(w) ==
    /\ nread[w] = Len(input[w].rows)
    /\ WorkerEOF(w)

\* The pipeline is started again, in new processes, on the same input
\* files, the same output directory and the warehouse as the first run
\* left it.
SecondRun ==
    /\ run = 1
    /\ lpc \in {"done", "failed"}
    /\ snap' = Summary(db)
    /\ run' = 2
    /\ UNCHANGED db
    /\ lpc' = "off"
    /\ lfailure' = "none"
    /\ mpc' = <<"start", 1>>
    /\ wpc' = [w \in Workers |-> "unstarted"]
    /\ failure' = "none"
    /\ nread' = [w \in Workers |-> 0]
    /\ lastLine' = [w \in Workers |-> NoLine]
    /\ lastBefore' = [w \in Workers |-> 0]
    /\ names' = [w \in Workers |-> {}]
    /\ wrote' = {}
    /\ UNCHANGED <<input, tmpEntry, tmpDetail, tmpActions, out, countVars,
                   batchVars, stagingVars>>
    /\ UNCHANGED <<pipeline, copier>>

NextRuns ==
    \/ MainStart
    \/ MainJoin
    \/ MainWriteLogType
    \/ MainMergeActionTypes
    \/ MainMergeLogEntry
    \/ MainMergeAccessDetail
    \/ \E w \in Workers : RunWorkerOpen(w)
    \/ \E w \in Workers : RunWorkerLine(w)
    \/ \E w \in Workers : RunWorkerEOF(w)
    \/ \E w \in Workers : WorkerFlush(w)
    \/ LoadTruncateAll
    \/ LoadCopyLogType
    \/ LoadCopyActionType
    \/ LoadCopyLogEntry
    \/ LoadCopyAccessDetail
    \/ SecondRun

SpecRuns == InitRuns /\ [][NextRuns]_vars

\* A batched loader is called on parsed data, once and then once more.
\* The detail of a parsed row, and the row as make_row of ingest/parser.py
\* and of ui/parsers/parser_runner.py returns it, with its eight keys; k
\* stands for what tells the record from the others (its timestamp, its
\* resource).
DetailOf(name, present, k) ==
    [present |-> present, remote_name |-> "-", auth_user |-> "-",
     http_method |-> name, resource |-> IF present THEN k ELSE 0,
     http_status |-> 200, referrer |-> "", user_agent |-> "curl"]

ParsedRow(log_type_name, name, hasDetail, k) ==
    MakeRow(log_type_name, name, k, "10.0.0.1", "", Empty, Empty,
            DetailOf(name, hasDetail, k))

\* the rows of one item: an action name (or none) with or without a detail
RowKinds == {<<"GET", TRUE>>, <<"POST", FALSE>>, <<"", TRUE>>}

RowSeqs(n) == UNION {[1..m -> RowKinds] : m \in 0..n}

\* the item of parsed for the log type lt, under the key given
ParsedItem(key, lt, kinds, p) ==
    <<key, [r \in 1..Len(kinds) |-> ParsedRow(lt, kinds[r][1], kinds[r][2], 10 * p + r)]>>

\* parsed as execute.parse builds it, one item per LogType in order
ParsedInputs ==
    {<<ParsedItem(ka, "ACCESS", a, 1),
       ParsedItem("HDFS_DATAXCEIVER", "HDFS_DATAXCEIVER", <<<<"served", FALSE>>>>, 2),
       ParsedItem("HDFS_NAMESYSTEM", "HDFS_NAMESYSTEM", n, 3)>> :
        ka \in {"ACCESS", "access"}, a \in RowSeqs(MaxRows),
        n \in {<<>>, <<<<"update", FALSE>>>>}}

\* the warehouse before the first call: log_type holds all log types or
\* lacks the last one, the other tables are empty
InitWarehouses ==
    {[EmptyDb EXCEPT !.log_type = SubSeq(LogTypeRows, 1, n)] :
        n \in {Len(LogTypes) - 1, Len(LogTypes)}}

\* a row that an earlier run left in log_entry_staging
StaleStagingRow ==
    StagingRow(CsvRowOf(ParsedRow("ACCESS", "HEAD", FALSE, 0)))

\* A loader is called on parsed data: a batched loader, or the staging
\* loader on the csv file written from the data.
InitLoad ==
    /\ pipeline = "parse"
    /\ copier = "none"
    /\ db \in InitWarehouses
    /\ lpc = "off"
    /\ lfailure = "none"
    /\ InitRunIdle
    /\ input = [w \in Workers |-> NoFile]
    /\ \/ /\ loader \in Loaders
          /\ bpc = "off"
          /\ InitStagingIdle
       \/ /\ loader = "ingest"
          /\ bpc = "idle"
          /\ spc = "off"
          /\ sfailure = "none"
          /\ log_entry_staging \in {<<>>, <<StaleStagingRow>>}
    /\ parsed \in ParsedInputs
    /\ calls = 1
    /\ InitBatchLocals
    /\ mpc = <<"off", 0>>
    /\ wpc = [w \in Workers |-> "unstarted"]
    /\ InitPipeIdle
    /\ InitFiles("nothing")
    /\ InitCountIdle

NextLoad ==
    \/ LoadBegin
    \/ LoadSkipLogType
    \/ LoadInsertForLogType
    \/ LoadCommit
    \/ InsertLogsBegin
    \/ InsertAppend
    \/ InsertFlushFull
    \/ InsertNoFlush
    \/ InsertFinalFlush
    \/ LoadAgain
    \/ CopyIntoStagingTruncate
    \/ CopyIntoStaging
    \/ PopulateActionTypes
    \/ MoveFromStagingToFinal

SpecLoad == InitLoad /\ [][NextLoad]_vars

-----------------------------------------------------------------------------
(* Properties *)

\* the rows a worker's latest step added to its record stream
Appended(w) == SubSeq(tmpEntry[w].rows, lastBefore[w] + 1, Len(tmpEntry[w].rows))

RowSet(f) == {f.rows[i] : i \in 1..Len(f.rows)}

Joined == mpc[1] \notin {"start", "join", "off"}

\* two action-names files give different identifiers for one name
Conflict ==
    \E w1 \in Workers, w2 \in Workers :
       \E r1 \in RowSet(tmpActions[w1]), r2 \in RowSet(tmpActions[w2]) :
          r1.name = r2.name /\ r1.id # r2.id

\* C1: the workers of one run agree on the identifier of every action name:
\* the action-names files of any two workers that finished give one
\* identifier per name, the fact rows of a finished worker carry only
\* identifiers of its action-names file, and when all three workers finished,
\* merge_action_types does not raise the identifier conflict.
C1_WorkersAgreeOnIds ==
    /\ \A w1 \in Workers, w2 \in Workers :
          (wpc[w1] = "done" /\ wpc[w2] = "done") =>
             \A r1 \in RowSet(tmpActions[w1]), r2 \in RowSet(tmpActions[w2]) :
                r1.name = r2.name => r1.id = r2.id
    /\ \A w \in Workers :
          wpc[w] = "done" =>
             {r.action_type_id : r \in RowSet(tmpEntry[w])}
                = {r.id : r \in RowSet(tmpActions[w])}
    /\ (\A w \in Workers : wpc[w] = "done") => failure # "ValueError"

\* the access worker and the placement worker both observed the name
\* "replicate", and the merge of the action names is over
C1_Witness ==
    /\ \A w \in Workers : wpc[w] = "done"
    /\ \E r \in RowSet(tmpActions["access"]) : r.name = "replicate"
    /\ \E r \in RowSet(tmpActions["namesys"]) : r.name = "replicate"
    /\ Len(tmpEntry["datax"].rows) >= 1
    /\ mpc[1] = "done"

\* C2: when the action-names files disagree on the identifier of a name,
\* parse.main ends at merge_action_types with an error, and neither
\* action_type.csv nor log_entry.csv nor log_access_detail.csv is written.
C2_ConflictStopsPipeline ==
    (Joined /\ Conflict) =>
       /\ mpc[1] \in {"write_log_type_csv", "merge_action_types", "failed"}
       /\ mpc[1] = "failed" => failure = "ValueError"
       /\ wrote \cap {ACTION_TYPE_FILENAME, LOG_ENTRY_FILENAME,
                      ACCESS_DETAIL_FILENAME} = {}

\* merge_action_types raised the identifier mismatch
C2_Witness ==
    /\ mpc[1] = "failed"
    /\ failure = "ValueError"
    /\ Conflict
    /\ wrote = {LOG_TYPE_FILENAME}

\* C3: the coordinator is past the joins, or has written any canonical
\* file, only when all three workers have terminated.
C3_JoinBarrier ==
    (Joined \/ wrote # {}) => \A w \in Workers : Terminated(w)

\* the coordinator merges the action names after a run in which the
\* workers did read lines
C3_Witness ==
    /\ mpc[1] = "merge_action_types"
    /\ \A w \in Workers : nread[w] >= 1

\* C4 (the claim as stated): once a worker has crashed, parse.main does not
\* get to the merge: it writes neither action_type.csv nor log_entry.csv.
C4_CrashAbortsBeforeMerge ==
    (\E w \in Workers : wpc[w] = "crashed") =>
       /\ ACTION_TYPE_FILENAME \notin wrote
       /\ LOG_ENTRY_FILENAME \notin wrote

\* a line of the access or transfer format whose integer field does not convert
BadIntegerLine(w, line) ==
    \/ /\ w = "access"
       /\ AccessRegexMatch(line) /\ TsApacheOk(line.timestamp)
       /\ line.size # <<"-">> /\ ~AllDigits(line.size)
    \/ /\ w = "datax"
       /\ DataxRegexMatch(line) /\ TsHdfsCompactOk(line.date, line.time)
       /\ ~SignedDigits(line.blk)

\* C5 (the claim as stated): a line whose integer field does not convert is
\* skipped: no row is written for it and the worker goes on.
C5_BadIntegerSkipped ==
    \A w \in {"access", "datax"} :
       BadIntegerLine(w, lastLine[w]) =>
          /\ Appended(w) = <<>>
          /\ wpc[w] # "crashed"

\* a line that matches its format's pattern and whose timestamp is not valid
BadTimestampLine(w, line) ==
    \/ w = "access" /\ AccessRegexMatch(line) /\ ~TsApacheOk(line.timestamp)
    \/ w = "datax" /\ DataxRegexMatch(line)
                   /\ ~TsHdfsCompactOk(line.date, line.time)
    \/ w = "namesys"
       /\ (NamesysUpdateRegexMatch(line) \/ NamesysAskReplicateRegexMatch(line))
       /\ ~TsHdfsCompactOk(line.date, line.time)

\* C6 (the claim as stated): a line whose timestamp is not valid is skipped:
\* no row is written for it and the worker goes on.
C6_BadTimestampSkipped ==
    \A w \in Workers :
       BadTimestampLine(w, lastLine[w]) =>
          /\ Appended(w) = <<>>
          /\ wpc[w] # "crashed"

\* C7 (the claim as stated): matched never exceeds total.
C7_MatchedAtMostTotal == matched <= total

\* a replicate line that is matched: the pattern fits and the fields convert
MatchedReplicate(line) ==
    /\ ~NamesysUpdateRegexMatch(line)
    /\ NamesysAskReplicateRegexMatch(line)
    /\ TsHdfsCompactOk(line.date, line.time)

\* the replicate rows all name one action, which is not the update action
SameReplicateAction(rs) ==
    /\ \A i \in 1..Len(rs) : rs[i].action_type_id = rs[1].action_type_id
    /\ \A r \in RowSet(tmpActions["namesys"]) :
          (wpc["namesys"] = "done" /\ Len(rs) >= 1) =>
             (r.id = rs[1].action_type_id <=> r.name = "replicate")

\* C8: a matched replicate line with K destination tokens adds exactly K
\* fact rows, in token order: row i has the ip of token i as dest_ip, and
\* all K rows share the action, the block id, the source ip and the timestamp.
C8_ReplicateFanOut ==
    LET line == lastLine["namesys"]
        rs == Appended("namesys")
    IN  MatchedReplicate(line) =>
           /\ wpc["namesys"] # "crashed"
           /\ Len(rs) = Len(line.dest_list)
           /\ \A i \in 1..Len(rs) :
                 /\ rs[i].dest_ip = line.dest_list[i][1]
                 /\ rs[i].source_ip = line.src_ip
                 /\ rs[i].block_id = Cell(IntVal(line.block))
                 /\ rs[i].log_timestamp = rs[1].log_timestamp
                 /\ rs[i].size_bytes = Empty
                 /\ rs[i].log_type_id = 3
           /\ SameReplicateAction(rs)

\* the placement worker finished after a replicate line with two
\* destinations as its latest line
C8_Witness ==
    /\ MatchedReplicate(lastLine["namesys"])
    /\ lastLine["namesys"].dest_list = <<Tok6, Tok7>>
    /\ Len(Appended("namesys")) = 2
    /\ lastBefore["namesys"] >= 1
    /\ wpc["namesys"] = "done"

\* a destination token that is exactly ip:port
WellFormed(tok) == Len(tok) = 3 /\ TokenMatch(tok)

\* C9 (the claim as stated): a replicate line with a malformed token next to
\* well-formed ones adds one row per well-formed token.
C9_MalformedTokenSkipped ==
    LET line == lastLine["namesys"]
    IN  (/\ line.fmt = "replicate"
         /\ TsHdfsCompactOk(line.date, line.time)
         /\ \E i \in 1..Len(line.dest_list) : WellFormed(line.dest_list[i])
         /\ \E i \in 1..Len(line.dest_list) : ~WellFormed(line.dest_list[i]))
        => /\ wpc["namesys"] # "crashed"
           /\ Len(Appended("namesys"))
                = Len(SelectSeq(line.dest_list, WellFormed))

\* a matched access line: the pattern fits and the fields convert
MatchedAccess(line) ==
    /\ AccessRegexMatch(line)
    /\ TsApacheOk(line.timestamp)
    /\ line.size = <<"-">> \/ AllDigits(line.size)

\* C10: a matched access line adds exactly one fact row; its size_bytes is
\* empty (not 0) when the size field is "-", and the number the digits spell
\* otherwise.
C10_AccessSize ==
    LET line == lastLine["access"]
        rs == Appended("access")
    IN  MatchedAccess(line) =>
           /\ wpc["access"] # "crashed"
           /\ Len(rs) = 1
           /\ line.size = <<"-">> =>
                 rs[1].size_bytes = Empty /\ rs[1].size_bytes # Cell(0)
           /\ line.size # <<"-">> =>
                 rs[1].size_bytes = Cell(NatVal(line.size))

\* the access worker wrote the row of a line with size "-" after an
\* earlier row
C10_Witness ==
    /\ MatchedAccess(lastLine["access"])
    /\ lastLine["access"].size = <<"-">>
    /\ Len(Appended("access")) = 1
    /\ lastBefore["access"] >= 1

\* the detail row the access worker's latest step added
AppendedDetail ==
    SubSeq(tmpDetail.rows, lastBefore["access"] + 1, Len(tmpDetail.rows))

\* C11: access-detail rows are 1:1 with ACCESS fact rows: the detail staging
\* file has one row per row of the access worker's record stream, row by row
\* with the same id; a matched access line adds exactly one fact row and one
\* detail row for it; no detail row carries the id of a row of the transfer
\* or placement worker; after the merge every row of log_access_detail.csv
\* references exactly one row of log_entry.csv, an ACCESS row.
C11_DetailOneToOne ==
    /\ (tmpDetail.exists /\ tmpEntry["access"].exists) =>
          /\ Len(tmpDetail.rows) = Len(tmpEntry["access"].rows)
          /\ \A i \in 1..Len(tmpDetail.rows) :
                tmpDetail.rows[i].log_entry_id = tmpEntry["access"].rows[i].id
    /\ MatchedAccess(lastLine["access"]) =>
          /\ Len(Appended("access")) = 1
          /\ Len(AppendedDetail) = 1
    /\ \A w \in {"datax", "namesys"} :
          \A r \in RowSet(tmpEntry[w]) :
             \A d \in RowSet(tmpDetail) : d.log_entry_id # r.id
    /\ mpc[1] = "done" =>
          \A d \in RowSet(out[ACCESS_DETAIL_FILENAME]) :
             LET refs == {i \in 1..Len(out[LOG_ENTRY_FILENAME].rows) :
                            out[LOG_ENTRY_FILENAME].rows[i].id = d.log_entry_id}
             IN  /\ Cardinality(refs) = 1
                 /\ \A i \in refs :
                       out[LOG_ENTRY_FILENAME].rows[i].log_type_id
                          = LoadLogTypeIds("ACCESS")

\* the merge is over after a run in which the access worker wrote two rows
\* and the other two workers wrote rows as well
C11_Witness ==
    /\ mpc[1] = "done"
    /\ Len(out[ACCESS_DETAIL_FILENAME].rows) = 2
    /\ nread["access"] = 2
    /\ Len(tmpEntry["datax"].rows) >= 1
    /\ Len(tmpEntry["namesys"].rows) >= 2

\* C12 (the claim as stated): the detail row of a matched access line
\* carries the request method of the line in its http_method column.
C12_DetailCarriesMethod ==
    MatchedAccess(lastLine["access"]) =>
       /\ Len(AppendedDetail) = 1
       /\ \A i \in 1..Len(AppendedDetail) :
             AppendedDetail[i].http_method = lastLine["access"].method

\* a 'blockMap updated' line with a valid timestamp
UpdateLine(line) ==
    /\ line.fmt = "update"
    /\ line.words = "blockMap updated:"
    /\ TsHdfsCompactOk(line.date, line.time)

\* C13 (the claim as stated): a 'blockMap updated' line adds exactly one fact
\* row, with action 'update', the ip of the line as dest_ip, no source_ip,
\* the signed block number and the size when there is one.
C13_UpdateRow ==
    LET line == lastLine["namesys"]
        rs == Appended("namesys")
    IN  UpdateLine(line) =>
           /\ Len(rs) = 1
           /\ \A i \in 1..Len(rs) :
                 /\ rs[i].action_type_id = DeterministicActionTypeId("update")
                 /\ rs[i].dest_ip = line.ip
                 /\ rs[i].source_ip = ""
                 /\ rs[i].block_id = Cell(IntVal(line.block))
                 /\ rs[i].size_bytes = IF line.size = <<>> THEN Empty
                                       ELSE Cell(NatVal(line.size))

\* the rows of the three record streams, in the order main passes them
StreamRows ==
    tmpEntry["access"].rows \o tmpEntry["datax"].rows \o tmpEntry["namesys"].rows

\* C14: once log_entry.csv is written, its rows are the rows of the access
\* stream, then those of the transfer stream, then those of the placement
\* stream, each stream complete and in the order its worker wrote it (the
\* n-th row a worker writes is numbered n), and no row is there twice.
C14_MergeKeepsOrder ==
    LOG_ENTRY_FILENAME \in wrote =>
       /\ out[LOG_ENTRY_FILENAME].rows = StreamRows
       /\ \A i \in 1..Len(StreamRows), j \in 1..Len(StreamRows) :
             i < j =>
                /\ StreamRows[i].id # StreamRows[j].id
                /\ StreamRows[i].id[2] = StreamRows[j].id[2] =>
                      StreamRows[i].id[3] < StreamRows[j].id[3]

\* log_entry.csv is written from streams of two, one and two rows, all
\* written in this run
C14_Witness ==
    /\ LOG_ENTRY_FILENAME \in wrote
    /\ Len(tmpEntry["access"].rows) = 2
    /\ Len(tmpEntry["datax"].rows) = 1
    /\ Len(tmpEntry["namesys"].rows) = 2
    /\ \A w \in Workers : wpc[w] = "done" /\ nread[w] >= 1
    /\ Len(out[LOG_ENTRY_FILENAME].rows) = 5


\* C19 (the claim as stated): the id of a fact row in the warehouse is never
\* a value a parse worker chose.
C19_LoaderMintsKeys ==
    \A i \in 1..Len(db.log_entry) : db.log_entry[i].id[1] # "uuid4"

\* C20: after the second run of the pipeline on the same input files, the
\* warehouse holds as many fact rows of every log type as it held after the
\* first run, and the same (id, name) pairs in action_type.
C20_RunsAgree ==
    (run = 2 /\ lpc \in {"done", "failed"}) => Summary(db) = snap

\* the second run has loaded rows of every log type and a catalog of two
\* names or more
C20_Witness ==
    /\ run = 2
    /\ lpc \in {"done", "failed"}
    /\ \A lt \in 1..Len(LogTypes) : Summary(db).facts[lt] >= 1
    /\ Cardinality(Summary(db).catalog) >= 2

\* --- the batched loader ---------------------------------------------------

\* how many rows of log_entry, and of log_access_detail, come from record k
Copies(d, k) ==
    Cardinality({i \in 1..Len(d.log_entry) : d.log_entry[i].log_timestamp = k})

DetailCopies(d, k) ==
    Cardinality({j \in 1..Len(d.log_access_detail) :
                    d.log_access_detail[j].resource = k})

\* the item p of parsed is of a log type the warehouse knows
KnownItem(p) ==
    \E i \in 1..Len(db.log_type) :
        Upper(db.log_type[i].name) = Upper(parsed[p][1])

\* the action names of the rows of the known items
KnownNames ==
    UNION {{parsed[p][2][r].action_type_name : r \in 1..Len(parsed[p][2])} :
              p \in {q \in 1..Len(parsed) : KnownItem(q)}} \ {""}

\* C15: in ingest/loader.py load, when the flush of a batch fails, the fact
\* rows and the detail rows of the batches flushed before it are in the
\* warehouse (next to what earlier calls left there), and the rows of the
\* failed batch and of the later ones are not.
C15_EarlierBatchesStay ==
    (loader = "ingest" /\ bpc = "failed") =>
        \A p \in 1..Len(parsed) : \A r \in 1..Len(parsed[p][2]) :
            LET row == parsed[p][2][r]
                k == row.log_timestamp
                earlier == IF KnownItem(p) THEN calls - 1 ELSE 0
                now == IF k \in flushed THEN 1 ELSE 0
            IN  /\ Copies(db, k) = earlier + now
                /\ DetailCopies(db, k) =
                      IF HasDetail(row) THEN earlier + now ELSE 0

\* C16: after load was called twice with the same parsed data and no
\* truncate, every fact row and every detail row of a known log type is in
\* the warehouse twice, and action_type holds one row per distinct name.
C16_SecondLoadDuplicates ==
    (loader = "ingest" /\ calls = 2 /\ bpc = "done") =>
        /\ \A p \in 1..Len(parsed) : \A r \in 1..Len(parsed[p][2]) :
              LET row == parsed[p][2][r]
                  k == row.log_timestamp
              IN  KnownItem(p) =>
                    /\ Copies(db, k) = 2
                    /\ DetailCopies(db, k) = IF HasDetail(row) THEN 2 ELSE 0
        /\ \A name \in KnownNames :
              Len(SelectSeq(db.action_type, LAMBDA a : a.name = name)) = 1
        /\ Len(db.action_type) = Cardinality(KnownNames)

C16_Witness ==
    /\ loader = "ingest" /\ calls = 2 /\ bpc = "done"
    /\ Len(db.log_access_detail) >= 4
    /\ Len(db.action_type) >= 3
    /\ \E p \in 1..Len(parsed) : ~KnownItem(p) /\ parsed[p][2] # <<>>

\* C17: every detail row the batched loader has inserted refers to exactly
\* one fact row, the one built from the same parsed record.
C17_DetailRefersToItsFact ==
    loader = "ingest" =>
        \A j \in 1..Len(tx.log_access_detail) :
            LET d == tx.log_access_detail[j]
                facts == {i \in 1..Len(tx.log_entry) :
                            tx.log_entry[i].id = d.log_entry_id}
            IN  /\ Cardinality(facts) = 1
                /\ \A i \in facts : tx.log_entry[i].log_timestamp = d.resource

\* a detail of a batch after the first, staged behind a row without a detail
C17_Witness ==
    /\ loader = "ingest" /\ calls = 1 /\ kpos = 1
    /\ \E j \in 1..Len(tx.log_access_detail) :
          LET id == tx.log_access_detail[j].log_entry_id
          IN  /\ id > BATCH_SIZE
              /\ (id - 1) % BATCH_SIZE # 0
              /\ \A j2 \in 1..Len(tx.log_access_detail) :
                    tx.log_access_detail[j2].log_entry_id # id - 1

\* C18: entry_batch never holds more than BATCH_SIZE rows, and entry_batch
\* and detail_staging are both empty right after a flush that was triggered
\* by reaching BATCH_SIZE.
C18_BatchBounded ==
    /\ Len(entry_batch) <= BATCH_SIZE
    /\ (step = "flush_full" /\ bpc # "failed") =>
          (entry_batch = <<>> /\ detail_staging = <<>>)

C18_Witness ==
    /\ step = "flush_full" /\ bpc = "row"
    /\ loader = "ingest"
    /\ inserted_count > BATCH_SIZE
    /\ tx.log_access_detail # <<>>

\* --- the workers and their files -------------------------------------------

NameOfRecord(k) ==
    LET p == CHOOSE q \in 1..Len(parsed) :
                 \E r \in 1..Len(parsed[q][2]) : parsed[q][2][r].log_timestamp = k
        r == CHOOSE r \in 1..Len(parsed[p][2]) : parsed[p][2][r].log_timestamp = k
    IN  ActionNameOf(loader, parsed[p][2][r])

\* the fact rows built by the loader, inserted or waiting in the batch of a
\* load that has not failed
BuiltEntries ==
    {tx.log_entry[i].action_type_id :> tx.log_entry[i].log_timestamp :
        i \in 1..Len(tx.log_entry)}
      \cup {entry_batch[i].action_type_id :> entry_batch[i].log_timestamp :
                i \in IF bpc = "failed" THEN {} ELSE 1..Len(entry_batch)}

\* C22: in both batched loaders a non-empty action name is in action_type at
\* most once, every row with that name got the id of that one row, and a
\* row with an empty or missing name got no id and put nothing into
\* action_type.
C22_GetOrCreateOnce ==
    /\ \A i \in 1..Len(tx.action_type) : \A j \in 1..Len(tx.action_type) :
          tx.action_type[i].name = tx.action_type[j].name => i = j
    /\ \A i \in 1..Len(tx.action_type) : tx.action_type[i].name # ""
    /\ \A e \in BuiltEntries :
          LET id == CHOOSE x \in DOMAIN e : TRUE
              name == NameOfRecord(e[id])
          IN  IF name = "" THEN id = Empty
              ELSE \E i \in 1..Len(tx.action_type) :
                      /\ tx.action_type[i].name = name
                      /\ id = Cell(tx.action_type[i].id)

C22_Witness ==
    /\ calls = 1
    /\ \E i \in 1..Len(tx.log_entry) : \E j \in 1..Len(tx.log_entry) :
          /\ i # j
          /\ tx.log_entry[i].action_type_id # Empty
          /\ tx.log_entry[i].action_type_id = tx.log_entry[j].action_type_id
    /\ \E i \in 1..Len(tx.log_entry) : tx.log_entry[i].action_type_id = Empty
    /\ Len(tx.action_type) >= 2

\* --- the worker as a state machine ------------------------------------------

\* What a worker that runs alone on the lines leaves behind: the rows of its
\* record stream and detail file, the names observed, the lines read, and
\* whether a line raised.
RECURSIVE RunAlone(_, _, _)
RunAlone(w, lines, acc) ==
    IF acc.crashed \/ lines = <<>> THEN acc
    ELSE LET r == ParseLine(w, Head(lines), Len(acc.rows))
         IN  RunAlone(w, Tail(lines),
                      [crashed |-> r.crash, rows |-> acc.rows \o r.rows,
                       detail |-> acc.detail \o r.detail,
                       names |-> acc.names \cup r.names,
                       nread |-> acc.nread + 1])

Alone(w) ==
    RunAlone(w, input[w].rows,
             [crashed |-> FALSE, rows |-> <<>>, detail |-> <<>>, names |-> {},
              nread |-> 0])

\* the steps of a worker process: OPEN, lines, EOF, FLUSH, DONE, or a crash
WorkerSteps ==
    {<<"unstarted", "ready">>, <<"ready", "run">>, <<"ready", "crashed">>,
     <<"run", "run">>, <<"run", "crashed">>, <<"run", "flush">>,
     <<"flush", "done">>}

\* the record stream of the worker is closed and holds the rows of all the
\* lines of its input
StreamComplete(w) ==
    /\ input[w].exists
    /\ nread[w] = Len(input[w].rows)
    /\ ~Alone(w).crashed
    /\ tmpEntry[w] = File(Alone(w).rows)

\* C23: a worker process only moves forward through OPEN, the lines, EOF,
\* FLUSH and DONE, and once it is flushing or has written its action names
\* in this run, its record stream is complete and the names file holds the
\* names observed.
C23_WorkerStateMachine ==
    /\ [](\A w \in Workers :
             /\ wpc[w] \in {"flush", "done"} => StreamComplete(w)
             /\ wpc[w] = "done" =>
                   tmpActions[w] = File(WriteActionTypes(Alone(w).names)))
    /\ [][run' = run =>
             \A w \in Workers :
                 wpc'[w] # wpc[w] => <<wpc[w], wpc'[w]>> \in WorkerSteps]_vars

C23_Witness ==
    /\ wpc["namesys"] = "done" /\ nread["namesys"] = 2
    /\ Len(tmpEntry["namesys"].rows) >= 2
    /\ wpc["access"] = "crashed" /\ nread["access"] = 2
    /\ wpc["datax"] = "run"

\* --- termination --------------------------------------------------------------

\* C24: when the three workers have ended normally, main goes on to finish
\* the merges and has then written the four canonical files; and while a
\* worker never ends, main never gets past the joins.
C24_JoinThenMerge ==
    /\ (\A w \in Workers : wpc[w] = "done")
          ~> (mpc[1] = "done" /\ wrote = CanonicalFiles)
    /\ \A w \in Workers :
          ([]~Terminated(w)) => [](mpc[1] \in {"start", "join"})

C24_Witness ==
    /\ \A w \in Workers : wpc[w] = "done"
    /\ mpc[1] = "done"
    /\ wrote = CanonicalFiles
    /\ \E w \in Workers : nread[w] = LiveLines

\* --- every log type of the input -----------------------------------------------

\* the parsed rows over all the log types of the mapping
RECURSIVE TotalParsed(_)
TotalParsed(p) ==
    IF p = 0 THEN 0 ELSE Len(parsed[p][2]) + TotalParsed(p - 1)

\* C25: after insert_logs has returned normally, the fact rows it inserted
\* are as many as the parsed rows of all the log types of its input, one
\* for every parsed row.
C25_InsertsEveryLogType ==
    (loader = "ui" /\ calls = 1 /\ bpc = "done") =>
        /\ Len(db.log_entry) = TotalParsed(Len(parsed))
        /\ \A p \in 1..Len(parsed) : \A r \in 1..Len(parsed[p][2]) :
              Copies(db, parsed[p][2][r].log_timestamp) = 1

\* --- the canonical dataset ------------------------------------------------------

\* the rows of a canonical file
Canon(f) == out[f].rows

\* C26: when parse.main has returned normally, every action_type_id of
\* log_entry.csv is the id of exactly one row of action_type.csv, no name is
\* in action_type.csv twice, every log_type_id of log_entry.csv is an id of
\* log_type.csv, and log_type.csv lists the three log types.
C26_ReferentiallyClosed ==
    mpc[1] = "done" =>
        LET entries == Canon(LOG_ENTRY_FILENAME)
            actions == Canon(ACTION_TYPE_FILENAME)
            types == Canon(LOG_TYPE_FILENAME)
        IN  /\ \A i \in 1..Len(entries) :
                  Cardinality({j \in 1..Len(actions) :
                                  actions[j].id = entries[i].action_type_id}) = 1
            /\ \A j \in 1..Len(actions) : \A k \in 1..Len(actions) :
                  actions[j].name = actions[k].name => j = k
            /\ \A i \in 1..Len(entries) :
                  \E t \in 1..Len(types) : types[t].id = entries[i].log_type_id
            /\ {types[t].name : t \in 1..Len(types)}
                  = {LogTypes[t] : t \in 1..Len(LogTypes)}
            /\ Len(types) = Len(LogTypes)

\* --- the interleaving of the workers ---------------------------------------------

\* The action-names file of a worker once its process has ended: written
\* from the names of its lines when it came to the end of its input, and
\* otherwise the file that was there before the run, which it did not touch.
NamesFileAfter(w) ==
    IF input[w].exists /\ ~Alone(w).crashed
    THEN File(WriteActionTypes(Alone(w).names))
    ELSE tmpActions[w]

\* What main writes when the workers run one after the other, each to its
\* end, before main goes on: groups in the order access, transfer, placement.
SequentialActions ==
    MergeActionTypes(<<NamesFileAfter("access"), NamesFileAfter("datax"),
                       NamesFileAfter("namesys")>>)

SequentialOut(f) ==
    CASE f = LOG_TYPE_FILENAME -> File(LogTypeRows)
      [] f = ACTION_TYPE_FILENAME -> File(ActionTypeRows(SequentialActions.types))
      [] f = LOG_ENTRY_FILENAME ->
            File(Alone("access").rows \o Alone("datax").rows
                    \o Alone("namesys").rows)
      [] f = ACCESS_DETAIL_FILENAME -> File(Alone("access").detail)

\* C27: whatever the order in which the workers started, ran and ended,
\* when parse.main has ended the canonical files it wrote are the ones a
\* run with the workers one after the other writes from the same input
\* files: same rows, same order, groups in the order access, transfer,
\* placement (the fact ids are compared by the worker and row they belong
\* to).
C27_InterleavingIndependent ==
    mpc[1] \in {"done", "failed"} =>
        IF SequentialActions.err # "none"
        THEN /\ mpc[1] = "failed"
             /\ wrote = {LOG_TYPE_FILENAME}
             /\ out[LOG_TYPE_FILENAME] = SequentialOut(LOG_TYPE_FILENAME)
        ELSE /\ mpc[1] = "done"
             /\ wrote = CanonicalFiles
             /\ \A f \in CanonicalFiles : out[f] = SequentialOut(f)

\* a run whose log_entry.csv holds rows of all three groups, two of the
\* last one
C27_Witness ==
    /\ mpc[1] = "done"
    /\ \A lt \in 1..Len(LogTypes) :
          \E i \in 1..Len(Canon(LOG_ENTRY_FILENAME)) :
              Canon(LOG_ENTRY_FILENAME)[i].log_type_id = lt
    /\ Len(Alone("namesys").rows) >= 2
    /\ Len(Canon(ACTION_TYPE_FILENAME)) >= 3

\* --- batching ------------------------------------------------------------------

\* the record of row r of item p of parsed
RowRecord(p, r) == parsed[p][2][r].log_timestamp

\* C28: _insert_for_log_type flushes every row exactly once. While it is
\* in its loop the rows flushed so far are the first inserted_count rows,
\* each inserted once by this call, and the batch holds the rows after
\* them up to the row the loop is at, none of them inserted yet; when it
\* returns, all N rows are inserted once and inserted_count is N; every
\* flush adds the size of its batch to the count, and no flush is of an
\* empty batch.
C28_EveryRowFlushedOnce ==
    /\ []((loader = "ingest" /\ bpc \in {"row", "check"}) =>
             /\ inserted_count + Len(entry_batch) = rpos - 1
             /\ \A i \in 1..Len(entry_batch) :
                   entry_batch[i].log_timestamp = RowRecord(kpos, inserted_count + i)
             /\ \A r \in 1..Len(CurRows) :
                   Copies(tx, RowRecord(kpos, r)) =
                      (calls - 1) + (IF r <= inserted_count THEN 1 ELSE 0))
    /\ []((loader = "ingest" /\ bpc = "key" /\ step \in {"flush_final", "return"}) =>
             /\ inserted_count = Len(parsed[kpos - 1][2])
             /\ \A r \in 1..Len(parsed[kpos - 1][2]) :
                   Copies(tx, RowRecord(kpos - 1, r)) = calls)
    /\ [][(loader = "ingest" /\ step' \in {"flush_full", "flush_final"}
              /\ bpc' # bpc) =>
             /\ entry_batch # <<>>
             /\ bpc' # "failed" =>
                   /\ inserted_count' = inserted_count + Len(entry_batch)
                   /\ Len(tx'.log_entry) = Len(tx.log_entry) + Len(entry_batch)]_vars

\* _insert_for_log_type has returned after full batches and a last batch
\* that was not full
C28_Witness ==
    /\ loader = "ingest" /\ bpc = "key" /\ step = "flush_final"
    /\ inserted_count > BATCH_SIZE
    /\ inserted_count % BATCH_SIZE # 0
    /\ inserted_count = Len(parsed[kpos - 1][2])

\* --- log types the warehouse does not know ---------------------------------------

\* the rows of the item p of parsed carry the name of a row of log_type,
\* letter for letter (an item without rows counts as known)
StagingKnown(p) ==
    \A r \in 1..Len(parsed[p][2]) :
       \E i \in 1..Len(db.log_type) :
          db.log_type[i].name = parsed[p][2][r].log_type_name

\* the rows of the items of parsed that satisfy K
RECURSIVE RowsOfItems(_, _)
RowsOfItems(K(_), p) ==
    IF p = 0 THEN 0
    ELSE (IF K(p) THEN Len(parsed[p][2]) ELSE 0) + RowsOfItems(K, p - 1)

\* C29: rows of a log type that has no row in log_type are left out
\* without an error, and the rows of the known log types are inserted. In
\* load the item is skipped, nothing is raised and nothing of it is
\* inserted, and when load has ended every row of a known item is in
\* log_entry once per call and no row of an unknown item is; when
\* move_from_staging_to_final has returned, log_entry holds one row for
\* every staged row of a known log type and none for the others, and the
\* count returned is the number of rows of the known log types.
C29_UnknownLogTypeDropped ==
    /\ (loader = "ingest" /\ step = "skip") =>
          /\ bpc = "key" /\ bfailure = "none"
          /\ ~KnownItem(kpos - 1)
          /\ \A r \in 1..Len(parsed[kpos - 1][2]) :
                Copies(tx, RowRecord(kpos - 1, r)) = 0
    /\ (loader = "ingest" /\ bpc = "done") =>
          \A p \in 1..Len(parsed) : \A r \in 1..Len(parsed[p][2]) :
              Copies(db, RowRecord(p, r)) = IF KnownItem(p) THEN calls ELSE 0
    /\ spc = "done" =>
          /\ \A p \in 1..Len(parsed) : \A r \in 1..Len(parsed[p][2]) :
                Copies(db, RowRecord(p, r)) = IF StagingKnown(p) THEN 1 ELSE 0
          /\ inserted_count = RowsOfItems(StagingKnown, Len(parsed))
          /\ Len(db.log_entry) = inserted_count

\* load has ended after it skipped an item with rows and inserted another
LoadSkippedAnItem ==
    /\ loader = "ingest" /\ bpc = "done" /\ calls = 1
    /\ \E p \in 1..Len(parsed) : ~KnownItem(p) /\ parsed[p][2] # <<>>
    /\ db.log_entry # <<>>

\* move_from_staging_to_final has returned: rows of two known log types
\* were inserted and the rows of an unknown one were not
C29_Witness ==
    /\ spc = "done"
    /\ \E p \in 1..Len(parsed) : ~StagingKnown(p) /\ parsed[p][2] # <<>>
    /\ \E i \in 1..Len(db.log_entry) : \E j \in 1..Len(db.log_entry) :
          db.log_entry[i].log_type_id # db.log_entry[j].log_type_id
    /\ inserted_count >= 3

\* --- the COPY loader, table by table ----------------------------------------------

\* C30: load.main first commits the truncate of all four tables, then
\* loads log_type, action_type, log_entry and log_access_detail in this
\* order, committing one table per step; no fact row is in the warehouse
\* before the COPY of both dimension tables was committed; and when the
\* COPY of a table fails, the tables before it keep the rows of their csv
\* files, that table and the later ones are empty, and what the warehouse
\* held before the run is not back.
C30_TruncateThenTableByTable ==
    /\ [][(lpc = "off" /\ lpc' # "off") =>
             (lpc' = CopyPhase[1] /\ db' = EmptyDb)]_vars
    /\ [][(lpc # "off" /\ lpc' # lpc /\ lpc' # "off") =>
             \E k \in 1..Len(LoadOrder) :
                 /\ lpc = CopyPhase[k]
                 /\ db[LoadOrder[k]] = <<>>
                 /\ \A t \in Tables \ {LoadOrder[k]} : db'[t] = db[t]
                 /\ \A j \in 1..(k - 1) :
                       db'[LoadOrder[j]] = CopyCsv(LoadOrder[j], db).rows
                 /\ \A j \in (k + 1)..Len(LoadOrder) : db'[LoadOrder[j]] = <<>>
                 /\ IF CopyCsv(LoadOrder[k], db).err = "none"
                    THEN /\ lpc' = CopyPhase[k + 1]
                         /\ db'[LoadOrder[k]] = CopyCsv(LoadOrder[k], db).rows
                    ELSE /\ lpc' = "failed"
                         /\ db' = db]_vars
    /\ []((lpc # "off" /\ db.log_entry # <<>>) =>
             /\ lpc \in {"copy_access_detail", "done", "failed"}
             /\ db.log_type = CopyCsv("log_type", db).rows
             /\ db.action_type = CopyCsv("action_type", db).rows)

\* the second run: the warehouse held fact rows of the first run, the
\* truncate, the dimension tables and log_entry are committed, and the
\* COPY of log_access_detail has failed
C30_Witness ==
    /\ run = 2
    /\ snap.catalog # {}
    /\ \E lt \in 1..Len(LogTypes) : snap.facts[lt] >= 1
    /\ lpc = "failed" /\ lfailure = "DatabaseError"
    /\ db.log_type # <<>> /\ db.action_type # <<>>
    /\ db.log_entry # <<>>
    /\ db.log_access_detail = <<>>
    /\ out[ACCESS_DETAIL_FILENAME].rows # <<>>

=============================================================================
